---- MODULE Spec2Model ----
(***************************************************************************)
(* Model of u-root/mkuimage: the initramfs file tree (Files), the archive  *)
(* writer (initramfs.Write) and the per-binary builder                     *)
(* (BinaryBuilder.Build).                                                  *)
(*                                                                         *)
(* Archive paths are sequences of path elements: <<"etc","f">> is "etc/f", *)
(* <<>> is ".", and a leading "/" element marks an absolute path.          *)
(* Host paths are sequences of path elements below the host root.          *)
(***************************************************************************)
EXTENDS Integers, Sequences, FiniteSets, TLC

VARIABLES
    Files,      \* Files.Files: archive path -> host source path
    Records,    \* Files.Records: archive path -> cpio record
    last,       \* the last tree operation: its arguments, the tree before it, its error
    nOps,       \* number of tree operations performed
    w,          \* state of one run of initramfs.Write
    b,          \* state of one run of a builder's Build
    u           \* state of one run of the uimage layer: Create, the modifiers

vars == <<Files, Records, last, nOps, w, b, u>>

\* ------------------------------------------------------------------ bounds
MaxOps == 3

\* -------------------------------------------------------------- constants
\* mode of the directories fillInParents creates (0o755)
DefaultDirMode == 493
Mode0777 == 511
Mode0444 == 292
Mode0555 == 365

\* ------------------------------------------------------------------ errors
ErrNil == "nil"
ErrExist == "os.ErrExist"
errAbsoluteName == "errAbsoluteName"

\* ------------------------------------------------------------------- paths
IsAbs(p) == p # <<>> /\ p[1] = "/"

\* the mutant of MakeRelative: an absolute destination is kept as it is
MakeRelativeKept(p) == p

\* filepath.Rel("/", dest): the leading separator is stripped
MakeRelative(p) == IF IsAbs(p) THEN Tail(p) ELSE p

\* filepath.Dir of a relative path; Dir of a single element is "." (<<>>)
Dir(p) == IF p = <<>> THEN <<>> ELSE SubSeq(p, 1, Len(p) - 1)

Join(p, name) == Append(p, name)

Base(p) == p[Len(p)]

\* ----------------------------------------------------------------- records
Rec(name, kind, mode, content, mtime) ==
    [Name |-> name, Kind |-> kind, Mode |-> mode, Content |-> content,
     Src |-> <<>>, MTime |-> mtime]

Directory(name, mode) == Rec(name, "dir", mode, "", 0)
Symlink(name, target) == Rec(name, "symlink", Mode0777, target, 0)
StaticFile(name, content, mode) == Rec(name, "file", mode, content, 0)

NoRecord == Rec(<<>>, "none", 0, "", 0)

\* cpio.MakeReproducible: clears the metadata that differs between builds
MakeReproducible(r) == [r EXCEPT !.MTime = 0]

\* ------------------------------------------------------------- the host fs
Node(kind, target) == [kind |-> kind, target |-> target]

HostFS ==
    LET f == Node("file", <<>>)
        d == Node("dir", <<>>)
    IN  (<<"h", "f1">> :> f) @@ (<<"h", "f2">> :> f)
        @@ (<<"h", "l1">> :> Node("link", <<"h", "f1">>))
        @@ (<<"h", "d1">> :> d) @@ (<<"h", "d1", "b">> :> d)
        @@ (<<"h", "d1", "b", "c">> :> f)
        @@ (<<"h", "d2">> :> d) @@ (<<"h", "d2", "b">> :> f)
        @@ (<<"h", "d3">> :> d) @@ (<<"h", "d3", "z">> :> f)

\* the names in directory dir of file system fs
Children(fs, dir) ==
    {Base(p) : p \in {q \in DOMAIN fs : Len(q) = Len(dir) + 1
                                         /\ SubSeq(q, 1, Len(dir)) = dir}}

\* filepath.EvalSymlinks on the last element
EvalSymlinks(fs, src) == IF fs[src].kind = "link" THEN fs[src].target ELSE src

\* ---------------------------------------------------------------- the tree
Tree(files, records) == [Files |-> files, Records |-> records]

EmptyMap == [x \in {} |-> x]

Put(m, k, v) == [x \in DOMAIN m \cup {k} |-> IF x = k THEN v ELSE m[x]]

Remove(m, k) == [x \in DOMAIN m \ {k} |-> m[x]]

Result(err, t) == [err |-> err, t |-> t]

Contains(t, dest) == dest \in DOMAIN t.Files \/ dest \in DOMAIN t.Records

Keys(t) == DOMAIN t.Files \cup DOMAIN t.Records

RECURSIVE addFile(_, _, _, _, _)
RECURSIVE addChildren(_, _, _, _, _, _)

\* the children of directory src, one after the other, stopping at the first error
addChildren(fs, t, src, dest, follow, names) ==
    IF names = {} THEN Result(ErrNil, t)
    ELSE LET name == CHOOSE n \in names : TRUE
             r == addFile(fs, t, Join(src, name), Join(dest, name), follow)
         IN  IF r.err # ErrNil THEN r
             ELSE addChildren(fs, r.t, src, dest, follow, names \ {name})

\* the mutant of addFileLeafClaimed: a claim in the record map is not looked at
addFileLeafRecordsUnseen(t, src, dest) ==
    IF dest \in DOMAIN t.Files
    THEN IF t.Files[dest] = src THEN Result(ErrNil, t) ELSE Result(ErrExist, t)
    ELSE Result(ErrNil, Tree(Put(t.Files, dest, src), t.Records))

\* a source that is not a directory claims dest unless dest is claimed already
addFileLeafClaimed(t, src, dest) ==
    IF dest \in DOMAIN t.Records THEN Result(ErrExist, t)
    ELSE IF dest \in DOMAIN t.Files
         THEN IF t.Files[dest] = src THEN Result(ErrNil, t) ELSE Result(ErrExist, t)
         ELSE Result(ErrNil, Tree(Put(t.Files, dest, src), t.Records))

\* the mutant of addFileDirClaimed: a directory gives way to an earlier source
addFileDirStrict(t, r, src, dest) ==
    IF r.err # ErrNil THEN Result(r.err, t)
    ELSE IF dest \in DOMAIN r.t.Records THEN Result(ErrExist, t)
    ELSE IF dest \in DOMAIN r.t.Files /\ r.t.Files[dest] # src THEN Result(ErrExist, t)
    ELSE Result(ErrNil, Tree(Put(r.t.Files, dest, src), r.t.Records))

\* a directory claims dest, also over an earlier source, once its children are in
addFileDirClaimed(t, r, src, dest) ==
    IF r.err # ErrNil THEN Result(r.err, t)
    ELSE IF dest \in DOMAIN r.t.Records THEN Result(ErrExist, t)
    ELSE Result(ErrNil, Tree(Put(r.t.Files, dest, src), r.t.Records))

addFile(fs, t, src0, dest0, follow) ==
    LET dest == MakeRelative(dest0)
        src == IF follow THEN EvalSymlinks(fs, src0) ELSE src0
    IN  IF fs[src].kind = "dir"
        THEN addFileDirClaimed(t,
                 addChildren(fs, t, src, dest, follow, Children(fs, src)), src, dest)
        ELSE addFileLeafClaimed(t, src, dest)

AddFileOp(fs, t, src, dest) == addFile(fs, t, src, dest, TRUE)

AddFileNoFollowOp(fs, t, src, dest) == addFile(fs, t, src, dest, FALSE)

\* the mutant of AddRecordOp: a record replaces a different record at its path
AddRecordOpReplaces(t, r) ==
    IF IsAbs(r.Name) THEN Result(errAbsoluteName, t)
    ELSE IF r.Name \in DOMAIN t.Files THEN Result(ErrExist, t)
    ELSE Result(ErrNil, Tree(t.Files, Put(t.Records, r.Name, r)))

AddRecordOp(t, r) ==
    IF IsAbs(r.Name) THEN Result(errAbsoluteName, t)
    ELSE IF r.Name \in DOMAIN t.Files THEN Result(ErrExist, t)
    ELSE IF r.Name \in DOMAIN t.Records
         THEN IF t.Records[r.Name] = r THEN Result(ErrNil, t) ELSE Result(ErrExist, t)
         ELSE Result(ErrNil, Tree(t.Files, Put(t.Records, r.Name, r)))

\* Rename moves the entry at name, whichever map holds it, to newname
RenameOp(t, name, newname) ==
    IF name \in DOMAIN t.Files
    THEN Tree(Put(Remove(t.Files, name), newname, t.Files[name]),
              Remove(t.Records, newname))
    ELSE IF name \in DOMAIN t.Records
    THEN Tree(Remove(t.Files, newname),
              Put(Remove(t.Records, name), newname,
                  [t.Records[name] EXCEPT !.Name = newname]))
    ELSE t

\* the mutant of addParent: only the record map is asked for the parent
RECURSIVE addParentRecordsOnly(_, _)
addParentRecordsOnly(t, name) ==
    LET parent == Dir(name)
    IN  IF parent = <<>> THEN t
        ELSE IF parent \notin DOMAIN t.Records
             THEN addParentRecordsOnly(
                      Tree(t.Files, Put(t.Records, parent,
                                        Directory(parent, DefaultDirMode))), parent)
             ELSE addParentRecordsOnly(t, parent)

\* the mutant of addParent: only the nearest parent is added
addParentNearest(t, name) ==
    LET parent == Dir(name)
    IN  IF parent = <<>> \/ Contains(t, parent) THEN t
        ELSE AddRecordOp(t, Directory(parent, DefaultDirMode)).t

\* a default directory for every missing ancestor of name
RECURSIVE addParent(_, _)
addParent(t, name) ==
    LET parent == Dir(name)
    IN  IF parent = <<>> THEN t
        ELSE IF ~Contains(t, parent)
             THEN addParent(AddRecordOp(t, Directory(parent, DefaultDirMode)).t, parent)
             ELSE addParent(t, parent)

RECURSIVE addParents(_, _)
addParents(t, names) ==
    IF names = {} THEN t
    ELSE LET name == CHOOSE n \in names : TRUE
         IN  addParents(addParent(t, name), names \ {name})

fillInParentsOp(t) == addParents(t, Keys(t))

\* ------------------------------------------------- tree operations (Spec)
\* inputs of the tree operations
Sources == {<<"h", "f1">>, <<"h", "f2">>, <<"h", "l1">>,
            <<"h", "d1">>, <<"h", "d2">>, <<"h", "d3">>}

Dests == {<<"a">>, <<"a", "b">>, <<"a", "b", "c">>, <<"/", "a">>, <<"/", "a", "b">>}

RecordNames == {<<"a">>, <<"a", "b">>, <<"a", "b", "c">>, <<"/", "a">>}

RecordInputs ==
    {Directory(n, m) : n \in RecordNames, m \in {DefaultDirMode, Mode0777}}
    \cup {Symlink(n, "t1") : n \in RecordNames}

CurTree == Tree(Files, Records)

NoOp == [op |-> "none", src |-> <<>>, dest |-> <<>>, rec |-> NoRecord,
         before |-> Tree(EmptyMap, EmptyMap), err |-> ErrNil]

Idle == [pc |-> "idle"]

Done(op, src, dest, rec, err) ==
    [op |-> op, src |-> src, dest |-> dest, rec |-> rec, before |-> CurTree, err |-> err]

AddFile ==
    \E src \in Sources, dest \in Dests :
        LET r == AddFileOp(HostFS, CurTree, src, dest)
        IN  /\ nOps < MaxOps
            /\ nOps' = nOps + 1
            /\ Files' = r.t.Files
            /\ Records' = r.t.Records
            /\ last' = Done("AddFile", src, dest, NoRecord, r.err)
            /\ UNCHANGED <<w, b, u>>

AddFileNoFollow ==
    \E src \in Sources, dest \in Dests :
        LET r == AddFileNoFollowOp(HostFS, CurTree, src, dest)
        IN  /\ nOps < MaxOps
            /\ nOps' = nOps + 1
            /\ Files' = r.t.Files
            /\ Records' = r.t.Records
            /\ last' = Done("AddFileNoFollow", src, dest, NoRecord, r.err)
            /\ UNCHANGED <<w, b, u>>

AddRecord ==
    \E rec \in RecordInputs :
        LET r == AddRecordOp(CurTree, rec)
        IN  /\ nOps < MaxOps
            /\ nOps' = nOps + 1
            /\ Files' = r.t.Files
            /\ Records' = r.t.Records
            /\ last' = Done("AddRecord", <<>>, rec.Name, rec, r.err)
            /\ UNCHANGED <<w, b, u>>

fillInParents ==
    LET t == fillInParentsOp(CurTree)
    IN  /\ nOps < MaxOps
        /\ nOps' = nOps + 1
        /\ Files' = t.Files
        /\ Records' = t.Records
        /\ last' = Done("fillInParents", <<>>, <<>>, NoRecord, ErrNil)
        /\ UNCHANGED <<w, b, u>>

Init ==
    /\ Files = EmptyMap
    /\ Records = EmptyMap
    /\ last = NoOp
    /\ nOps = 0
    /\ w = Idle
    /\ b = Idle
    /\ u = Idle

Next == AddFile \/ AddFileNoFollow \/ AddRecord \/ fillInParents

Spec == Init /\ [][Next]_vars

\* ---------------------------------------------- initramfs.Write (SpecWrite)
MaxBase == 2

InitPath == <<"init">>
InitoPath == <<"inito">>
EtcPath == <<"etc">>
EtcFPath == <<"etc", "f">>

ErrRead == "read error"
ErrWrite == "write error"

\* cpio.TrailerRecord
TrailerRecord == Rec(<<"TRAILER!!!">>, "trailer", 0, "", 0)

\* the record WriteTo makes of the host file src for archive path dest
FileRecord(src, dest) ==
    [Name |-> dest, Kind |-> "hostfile", Mode |-> 0, Content |-> "",
     Src |-> src, MTime |-> 0]

\* the record WriteTo writes for the entry of t at path
SinkRecord(t, path) ==
    IF path \in DOMAIN t.Records THEN MakeReproducible(t.Records[path])
    ELSE FileRecord(t.Files[path], path)

\* the archive paths of the model in sort.Strings order
PathOrder ==
    <<<<"bbin">>, <<"bbin", "bb">>, <<"bbin", "x">>, <<"bbin", "y">>,
      <<"bin">>, <<"bin", "defaultsh">>, <<"bin", "sh">>, <<"bin", "uinit">>,
      <<"bin", "x">>, <<"bin", "y">>,
      EtcPath, EtcFPath, <<"etc", "uinit.flags">>, InitPath, InitoPath>>

\* the mutant of sortedKeys: the last path of the order is left out
sortedKeysShort(t) ==
    SelectSeq(PathOrder, LAMBDA p : p \in Keys(t) /\ p # PathOrder[Len(PathOrder)])

\* the paths of the tree in the order WriteTo writes them
sortedKeys(t) == SelectSeq(PathOrder, LAMBDA p : p \in Keys(t))

\* whether the base archive's init is to be renamed
renamesInit(t, useExistingInit) == ~useExistingInit /\ Contains(t, InitPath)

\* the mutant of transform: init is never renamed
transformNoRename(rename, r) == MakeReproducible(r)

\* the transform applied to every base record
transform(rename, r) ==
    IF rename /\ r.Name = InitPath
    THEN MakeReproducible([r EXCEPT !.Name = InitoPath])
    ELSE MakeReproducible(r)

\* the mutant of preRename: the tree's init is copied to inito, not moved
preRenameCopies(t, useExistingInit) ==
    IF useExistingInit /\ InitPath \in DOMAIN t.Files
    THEN Tree(Put(RenameOp(t, InitPath, InitoPath).Files, InitPath, t.Files[InitPath]),
              RenameOp(t, InitPath, InitoPath).Records)
    ELSE IF useExistingInit /\ InitPath \in DOMAIN t.Records
    THEN Tree(RenameOp(t, InitPath, InitoPath).Files,
              Put(RenameOp(t, InitPath, InitoPath).Records, InitPath,
                  t.Records[InitPath]))
    ELSE t

\* the mutant of preRename: the tree's init stays where it is
preRenameNever(t, useExistingInit) == t

\* the tree's own init makes way for the base archive's init
preRename(t, useExistingInit) ==
    IF useExistingInit /\ Contains(t, InitPath)
    THEN RenameOp(t, InitPath, InitoPath)
    ELSE t

\* the mutant of mergeRecord: the parents are filled in before every base record
mergeRecordFilled(t, rename, f) ==
    AddRecordOp(fillInParentsOp(t), transform(rename, f)).t

\* the mutant of mergeRecord: a base record replaces the entry it collides with
mergeRecordBaseWins(t, rename, f) ==
    LET r == transform(rename, f)
    IN  IF IsAbs(r.Name) THEN t
        ELSE Tree(Remove(t.Files, r.Name), Put(t.Records, r.Name, r))

\* _ = opts.Files.AddRecord(transform(f)): the error of AddRecord is dropped
mergeRecord(t, rename, f) == AddRecordOp(t, transform(rename, f)).t

\* inputs of Write: the user tree claims each path as a record, as a host
\* file or not at all; the base archive is a stream of distinct records
UserRecord(p) ==
    IF p = InitPath THEN StaticFile(InitPath, "bar", Mode0444)
    ELSE IF p = InitoPath THEN StaticFile(InitoPath, "uo", Mode0444)
    ELSE IF p = EtcPath THEN Directory(EtcPath, Mode0777)
    ELSE Symlink(p, "elsewhere")

UserFile(p) == IF p = EtcPath THEN <<"h", "d3">> ELSE <<"h", "f1">>

WritePaths == {InitPath, InitoPath, EtcPath, EtcFPath}

UserTrees ==
    {Tree([p \in {q \in WritePaths : c[q] = "file"} |-> UserFile(p)],
          [p \in {q \in WritePaths : c[q] = "rec"} |-> UserRecord(p)]) :
        c \in [WritePaths -> {"none", "rec", "file"}]}

BaseRecord(p) ==
    IF p = InitPath THEN Rec(InitPath, "file", Mode0555, "boo", 1)
    ELSE IF p = InitoPath THEN Rec(InitoPath, "file", Mode0555, "bo", 1)
    ELSE IF p = EtcPath THEN Rec(EtcPath, "dir", Mode0444, "", 1)
    ELSE Rec(p, "file", Mode0555, "bf", 1)

\* the records a base archive can hold: one per path, and a second and
\* different record for etc/f
BaseRecords ==
    {BaseRecord(p) : p \in WritePaths} \cup {Rec(EtcFPath, "file", Mode0555, "bf2", 1)}

BaseStreams ==
    {s \in UNION {[1..n -> BaseRecords] : n \in 0..MaxBase} :
        \A i, j \in 1..Len(s) : s[i] = s[j] => i = j}

InitWrite ==
    /\ \E t \in UserTrees : Files = t.Files /\ Records = t.Records
    /\ last = NoOp
    /\ nOps = 0
    /\ b = Idle
    /\ u = Idle
    /\ \E hasBase \in BOOLEAN, useExistingInit \in BOOLEAN, base \in BaseStreams :
          /\ hasBase \/ base = <<>>
          /\ w = [pc |-> "start", hasBase |-> hasBase, base |-> base, stream |-> base,
                  useExistingInit |-> useExistingInit, rename |-> FALSE,
                  user |-> CurTree, merged |-> CurTree, todo |-> <<>>, sink |-> <<>>,
                  finished |-> 0, err |-> ErrNil]

\* Write, up to the loop over the base archive
WriteStart ==
    /\ w.pc = "start"
    /\ IF w.hasBase
       THEN LET t == preRename(CurTree, w.useExistingInit)
            IN  /\ w' = [w EXCEPT !.pc = "read",
                                  !.rename = renamesInit(CurTree, w.useExistingInit)]
                /\ Files' = t.Files
                /\ Records' = t.Records
       ELSE /\ w' = [w EXCEPT !.pc = "writeTo"]
            /\ UNCHANGED <<Files, Records>>
    /\ UNCHANGED <<last, nOps, b, u>>

\* ReadRecord returns io.EOF
ReadEOF ==
    /\ w.pc = "read"
    /\ w.base = <<>>
    /\ w' = [w EXCEPT !.pc = "writeTo"]
    /\ UNCHANGED <<Files, Records, last, nOps, b, u>>

\* ReadRecord returns another error: Write returns it
ReadError ==
    /\ w.pc = "read"
    /\ w' = [w EXCEPT !.pc = "done", !.err = ErrRead]
    /\ UNCHANGED <<Files, Records, last, nOps, b, u>>

\* ReadRecord returns a record, which is added to the tree
ReadRecord ==
    /\ w.pc = "read"
    /\ w.base # <<>>
    /\ LET t == mergeRecord(CurTree, w.rename, Head(w.base))
       IN  /\ w' = [w EXCEPT !.base = Tail(w.base)]
           /\ Files' = t.Files
           /\ Records' = t.Records
    /\ UNCHANGED <<last, nOps, b, u>>

\* Files.WriteTo: the parents are filled in, then the keys are written in order
WriteTo ==
    /\ w.pc = "writeTo"
    /\ LET t == fillInParentsOp(CurTree)
       IN  /\ Files' = t.Files
           /\ Records' = t.Records
           /\ w' = [w EXCEPT !.pc = "records", !.merged = CurTree, !.todo = sortedKeys(t)]
    /\ UNCHANGED <<last, nOps, b, u>>

WriteRecord ==
    /\ w.pc = "records"
    /\ w.todo # <<>>
    /\ w' = [w EXCEPT !.todo = Tail(w.todo),
                      !.sink = Append(w.sink, SinkRecord(CurTree, Head(w.todo)))]
    /\ UNCHANGED <<Files, Records, last, nOps, b, u>>

\* the sink refuses a record: WriteTo and Write return the error
WriteRecordError ==
    /\ w.pc = "records"
    /\ w.todo # <<>>
    /\ w' = [w EXCEPT !.pc = "done", !.err = ErrWrite]
    /\ UNCHANGED <<Files, Records, last, nOps, b, u>>

\* opts.OutputFile.Finish(): the trailer is written
Finish ==
    /\ w.pc = "records"
    /\ w.todo = <<>>
    /\ \E err \in {ErrNil, ErrWrite} :
          w' = [w EXCEPT !.pc = "done", !.err = err, !.finished = w.finished + 1,
                         !.sink = IF err = ErrNil THEN Append(w.sink, TrailerRecord)
                                  ELSE w.sink]
    /\ UNCHANGED <<Files, Records, last, nOps, b, u>>

NextWrite ==
    \/ WriteStart \/ ReadEOF \/ ReadError \/ ReadRecord
    \/ WriteTo \/ WriteRecord \/ WriteRecordError \/ Finish

SpecWrite == InitWrite /\ [][NextWrite]_vars

\* ------------------------------------------ BinaryBuilder.Build (SpecBuild)
MaxPkgs == 2

ErrEnvMissing == "ErrEnvMissing"
ErrTempDirMissing == "ErrTempDirMissing"

\* opts.TempDir on the host
TempDir == <<"tmp">>

\* BinaryBuilder.DefaultBinaryDir
DefaultBinaryDir == "bin"

\* the packages a build may name: two of them have the same base name
Pkgs == {<<"cmds", "x">>, <<"lib", "x">>, <<"cmds", "y">>}

PkgLists == UNION {[1..n -> Pkgs] : n \in 0..MaxPkgs}

\* the error of unit i: the lookup of its package failed, or its compilation
UnitError(kind, i) == [kind |-> kind, unit |-> i]

NilError == UnitError(ErrNil, 0)

ReturnError(name) == UnitError(name, 0)

binaryDirOf(opts) == IF opts.BinaryDir = "" THEN DefaultBinaryDir ELSE opts.BinaryDir

\* what a caller-supplied temp directory may hold before Build is called
OldPath == <<"tmp", "old">>
Leftovers == {{}, {OldPath}}

\* the mutant of TempFS: the temp directory holds the built binaries only
TempFSFresh(binaryDir, built, left) ==
    LET names == {Base(p) : p \in built}
    IN  [p \in {TempDir} \cup {<<"tmp", binaryDir>> : n \in names}
               \cup {<<"tmp", binaryDir, n>> : n \in names} |->
            IF Len(p) = 3 THEN Node("file", <<>>) ELSE Node("dir", <<>>)]

\* the temp directory once the units that compiled have written their
\* binaries: the files left holds before the call are still there
TempFS(binaryDir, built, left) ==
    LET f == Node("file", <<>>)
        d == Node("dir", <<>>)
        names == {Base(p) : p \in built}
    IN  [p \in {TempDir} \cup left \cup {<<"tmp", binaryDir>> : n \in names}
               \cup {<<"tmp", binaryDir, n>> : n \in names} |->
            IF Len(p) = 3 \/ p \in left THEN f ELSE d]

\* the file unit p compiles into: TempDir/binaryDir/Base(p)
destOf(opts, p) == <<"tmp", binaryDirOf(opts), Base(p)>>

AllUnits == 1..Len(b.opts.Packages)

\* the mutant of capacity: the result channel is unbuffered
capacityUnbuffered(opts) == 0

\* make(chan error, len(opts.Packages)): the capacity of the result channel
capacity(opts) == Len(opts.Packages)

\* result <- err does not block while the channel holds fewer than its capacity
canSend(result, opts) == Len(result) < capacity(opts)

\* the mutant of waitReturns: Wait returns once one unit is done
waitReturnsEarly(unit) == \E i \in DOMAIN unit : unit[i] = "done"

\* wg.Wait() returns once every unit added to the group has called Done
waitReturns(unit) == \A i \in DOMAIN unit : unit[i] \in {"idle", "done"}

\* the mutant of firstError: the last error of the channel is returned
firstErrorLast(result) ==
    LET errs == SelectSeq(result, LAMBDA e : e # NilError)
    IN  IF errs = <<>> THEN NilError ELSE errs[Len(errs)]

\* the mutant of firstError: the errors of the channel are dropped
firstErrorDropped(result) == NilError

\* for err := range result: the first error that is not nil, if any
firstError(result) ==
    LET errs == SelectSeq(result, LAMBDA e : e # NilError)
    IN  IF errs = <<>> THEN NilError ELSE Head(errs)

BuildTrees ==
    {Tree(EmptyMap, EmptyMap),
     Tree(EmptyMap, (<<"bin", "x">> :> Symlink(<<"bin", "x">>, "elsewhere")))}

InitBuild ==
    /\ \E t \in BuildTrees : Files = t.Files /\ Records = t.Records
    /\ last = NoOp
    /\ nOps = 0
    /\ w = Idle
    /\ u = Idle
    /\ \E env \in BOOLEAN, tmp \in BOOLEAN, dir \in {"", "bbin"}, pkgs \in PkgLists,
          left \in Leftovers :
          b = [pc |-> "check",
               opts |-> [Env |-> env, TempDir |-> tmp, BinaryDir |-> dir,
                         Packages |-> pkgs],
               left |-> IF tmp THEN left ELSE {},
               unit |-> [i \in 1..Len(pkgs) |-> "idle"],
               launched |-> 0, result |-> <<>>, sent |-> <<>>, built |-> {},
               dest |-> [i \in 1..Len(pkgs) |-> <<>>], binary |-> EmptyMap,
               tree0 |-> CurTree, afUsed |-> FALSE, err |-> NilError]

\* the mutant of optsError: the temp directory is checked first
optsErrorTempDirFirst(opts) ==
    IF ~opts.TempDir THEN ErrTempDirMissing
    ELSE IF ~opts.Env THEN ErrEnvMissing
    ELSE ErrNil

\* the error of the options: opts.Env == nil, then opts.TempDir == ""
optsError(opts) ==
    IF ~opts.Env THEN ErrEnvMissing
    ELSE IF ~opts.TempDir THEN ErrTempDirMissing
    ELSE ErrNil

\* the checks of the options, before anything is compiled
CheckOpts ==
    /\ b.pc = "check"
    /\ b' = IF optsError(b.opts) # ErrNil
            THEN [b EXCEPT !.pc = "done", !.err = ReturnError(optsError(b.opts))]
            ELSE [b EXCEPT !.pc = "launch"]
    /\ UNCHANGED <<Files, Records, last, nOps, w, u>>

\* one iteration of the loop over opts.Packages: wg.Add(1) and the go statement
Launch ==
    /\ b.pc = "launch"
    /\ b.launched < Len(b.opts.Packages)
    /\ b' = [b EXCEPT !.launched = b.launched + 1,
                      !.unit[b.launched + 1] = "dirFor"]
    /\ UNCHANGED <<Files, Records, last, nOps, w, u>>

\* the loop is over: wg.Wait() is called
LaunchDone ==
    /\ b.pc = "launch"
    /\ b.launched = Len(b.opts.Packages)
    /\ b' = [b EXCEPT !.pc = "wait"]
    /\ UNCHANGED <<Files, Records, last, nOps, w, u>>

\* unit i looks its package up: on an error it sends the error and returns
UnitDirFor(i) ==
    /\ b.unit[i] = "dirFor"
    /\ \E ok \in BOOLEAN :
          /\ ok \/ canSend(b.result, b.opts)
          /\ b' = IF ok THEN [b EXCEPT !.unit[i] = "BuildDir"]
                  ELSE [b EXCEPT !.unit[i] = "return",
                                 !.sent = Append(b.sent, i),
                                 !.result = Append(b.result, UnitError("dirFor", i))]
    /\ UNCHANGED <<Files, Records, last, nOps, w, u>>

\* unit i compiles its package into the temp directory and sends the result
UnitBuildDir(i) ==
    /\ b.unit[i] = "BuildDir"
    /\ canSend(b.result, b.opts)
    /\ \E ok \in BOOLEAN :
          b' = IF ok
               THEN [b EXCEPT !.unit[i] = "return",
                              !.sent = Append(b.sent, i),
                              !.built = b.built \cup {b.opts.Packages[i]},
                              !.dest[i] = destOf(b.opts, b.opts.Packages[i]),
                              !.binary = Put(b.binary,
                                             destOf(b.opts, b.opts.Packages[i]),
                                             b.opts.Packages[i]),
                              !.result = Append(b.result, NilError)]
               ELSE [b EXCEPT !.unit[i] = "return",
                              !.sent = Append(b.sent, i),
                              !.dest[i] = destOf(b.opts, b.opts.Packages[i]),
                              !.result = Append(b.result, UnitError("BuildDir", i))]
    /\ UNCHANGED <<Files, Records, last, nOps, w, u>>

\* unit i returns: the deferred wg.Done() runs
UnitDone(i) ==
    /\ b.unit[i] = "return"
    /\ b' = [b EXCEPT !.unit[i] = "done"]
    /\ UNCHANGED <<Files, Records, last, nOps, w, u>>

\* wg.Wait() returns, the channel is closed and read to its first error
WaitAndCollect ==
    /\ b.pc = "wait"
    /\ waitReturns(b.unit)
    /\ b' = IF firstError(b.result) # NilError
            THEN [b EXCEPT !.pc = "done", !.err = firstError(b.result)]
            ELSE [b EXCEPT !.pc = "addFile"]
    /\ UNCHANGED <<Files, Records, last, nOps, w, u>>

\* return af.AddFile(opts.TempDir, "")
AddTempDir ==
    /\ b.pc = "addFile"
    /\ \E r \in {AddFileOp(TempFS(binaryDirOf(b.opts), b.built, b.left), CurTree, TempDir, <<>>)} :
           /\ Files' = r.t.Files
           /\ Records' = r.t.Records
           /\ b' = [b EXCEPT !.pc = "done", !.afUsed = TRUE, !.err = ReturnError(r.err)]
    /\ UNCHANGED <<last, nOps, w, u>>

NextBuild ==
    \/ CheckOpts \/ Launch \/ LaunchDone
    \/ \E i \in AllUnits : UnitDirFor(i)
    \/ \E i \in AllUnits : UnitBuildDir(i)
    \/ \E i \in AllUnits : UnitDone(i)
    \/ WaitAndCollect \/ AddTempDir

SpecBuild == InitBuild /\ [][NextBuild]_vars

\* the steps of Build up to the collection of the results
BuildUnits ==
    \/ CheckOpts \/ Launch \/ LaunchDone
    \/ \E i \in AllUnits : UnitDirFor(i)
    \/ \E i \in AllUnits : UnitBuildDir(i)
    \/ \E i \in AllUnits : UnitDone(i)
    \/ WaitAndCollect

\* the scheduler runs every goroutine that can take a step and every compiler
\* invocation returns; af.AddFile returns too: AddTempDir is enabled exactly
\* when b.pc = "addFile", so the last conjunct is its weak fairness
FairBuild ==
    /\ SpecBuild
    /\ WF_vars(BuildUnits)
    /\ []<>(b.pc # "addFile")

\* ------------------------------------------------- GBBBuilder.Build
ErrBusyboxFailed == "ErrBusyboxFailed"

\* GBBBuilder.DefaultBinaryDir
DefaultBbinDir == "bbin"

bbinDirOf(opts) == IF opts.BinaryDir = "" THEN DefaultBbinDir ELSE opts.BinaryDir

\* the combined executable in the temp directory
BBPath == <<"tmp", "bb">>

BBFS == (TempDir :> Node("dir", <<>>)) @@ (BBPath :> Node("file", <<>>))

\* the configuration error of the multi-call builder, reported before any
\* compilation: no build environment, then no temp directory
gbbOptsError(opts) ==
    IF ~opts.Env THEN ErrEnvMissing
    ELSE IF ~opts.TempDir THEN ErrTempDirMissing
    ELSE ErrNil

\* the dispatcher entry of a command: a symlink to the combined executable,
\* or with ShellBang a script stub that names it
Dispatcher(dir, name, shellBang) ==
    IF shellBang
    THEN StaticFile(<<dir, name>>, "#!/bbin/bb #!gobb!#", Mode0555)
    ELSE Symlink(<<dir, name>>, "bb")

\* the entries of the packages pkgs[k..] are added to the tree, and the first
\* name that is already claimed ends the build
RECURSIVE addDispatchers(_, _, _, _, _)
addDispatchers(t, dir, pkgs, k, shellBang) ==
    IF k > Len(pkgs) THEN Result(ErrNil, t)
    ELSE IF Contains(t, <<dir, Base(pkgs[k])>>) THEN Result(ErrExist, t)
    ELSE addDispatchers(AddRecordOp(t, Dispatcher(dir, Base(pkgs[k]), shellBang)).t,
                        dir, pkgs, k + 1, shellBang)

\* the combined executable, then one dispatcher entry per package
gbbAddFiles(t, opts, shellBang) ==
    LET dir == bbinDirOf(opts)
        r == AddFileOp(BBFS, t, BBPath, <<dir, "bb">>)
    IN  IF Contains(t, <<dir, "bb">>) THEN Result(ErrExist, t)
        ELSE IF r.err # ErrNil THEN r
        ELSE addDispatchers(r.t, dir, opts.Packages, 1, shellBang)

GBBTrees ==
    BuildTrees \cup
    {Tree(EmptyMap, (<<"bbin", "bb">> :> StaticFile(<<"bbin", "bb">>, "", Mode0777)))}

InitGBB ==
    /\ \E t \in GBBTrees : Files = t.Files /\ Records = t.Records
    /\ last = NoOp
    /\ nOps = 0
    /\ w = Idle
    /\ u = Idle
    /\ \E env \in BOOLEAN, tmp \in BOOLEAN, dir \in {"", "bin"}, pkgs \in PkgLists,
          sb \in BOOLEAN :
          b = [pc |-> "gbbCheck",
               opts |-> [Env |-> env, TempDir |-> tmp, BinaryDir |-> dir,
                         Packages |-> pkgs],
               unit |-> [i \in 1..Len(pkgs) |-> "idle"],
               launched |-> 0, result |-> <<>>, sent |-> <<>>, built |-> {},
               dest |-> [i \in 1..Len(pkgs) |-> <<>>], binary |-> EmptyMap,
               tree0 |-> CurTree, afUsed |-> FALSE, err |-> NilError,
               shellBang |-> sb]

\* the checks of the options, before the combined compilation
GBBCheckOpts ==
    /\ b.pc = "gbbCheck"
    /\ b' = IF gbbOptsError(b.opts) # ErrNil
            THEN [b EXCEPT !.pc = "done", !.err = ReturnError(gbbOptsError(b.opts))]
            ELSE [b EXCEPT !.pc = "gbbBuild"]
    /\ UNCHANGED <<Files, Records, last, nOps, w, u>>

\* the combined compilation of all packages into TempDir/bb
GBBBuildBusybox ==
    /\ b.pc = "gbbBuild"
    /\ \E ok \in BOOLEAN :
          b' = IF ok
               THEN [b EXCEPT !.pc = "gbbAdd",
                              !.built = {b.opts.Packages[i] : i \in AllUnits},
                              !.binary = Put(b.binary, BBPath, b.opts.Packages)]
               ELSE [b EXCEPT !.pc = "done", !.err = ReturnError(ErrBusyboxFailed)]
    /\ UNCHANGED <<Files, Records, last, nOps, w, u>>

\* the executable and the dispatcher entries are added to the tree
GBBAddFiles ==
    /\ b.pc = "gbbAdd"
    /\ LET r == gbbAddFiles(CurTree, b.opts, b.shellBang)
       IN  /\ Files' = r.t.Files
           /\ Records' = r.t.Records
           /\ b' = [b EXCEPT !.pc = "done", !.afUsed = TRUE, !.err = ReturnError(r.err)]
    /\ UNCHANGED <<last, nOps, w, u>>

NextGBB == GBBCheckOpts \/ GBBBuildBusybox \/ GBBAddFiles

\* a build by either builder
InitBuilders == InitBuild \/ InitGBB

NextBuilders ==
    \/ CheckOpts \/ Launch \/ LaunchDone
    \/ \E i \in AllUnits : UnitDirFor(i)
    \/ \E i \in AllUnits : UnitBuildDir(i)
    \/ \E i \in AllUnits : UnitDone(i)
    \/ WaitAndCollect \/ AddTempDir
    \/ GBBCheckOpts \/ GBBBuildBusybox \/ GBBAddFiles

SpecBuilders == InitBuilders /\ [][NextBuilders]_vars

\* ------------------------------------------------- CreateInitramfs
MaxGroups == 2

errSymlink == "errSymlink"
errInitSymlink == "errInitSymlink"
errUinitSymlink == "errUinitSymlink"
errUinitArgs == "errUinitArgs"
errDefaultshSymlink == "errDefaultshSymlink"
ErrBinaryFailed == "ErrBinaryFailed"

UinitPath == <<"bin", "uinit">>
UinitFlagsPath == <<"etc", "uinit.flags">>
ShPath == <<"bin", "sh">>
DefaultshPath == <<"bin", "defaultsh">>

SpecialPaths == {InitPath, UinitPath, UinitFlagsPath, ShPath, DefaultshPath}

\* a command setting: empty, an absolute path, or the name of a command
NoCmd == <<>>
Systemd == <<"/", "bin", "systemd">>

\* a Command-Group: a builder and its packages
Group(builder, pkgs) == [Builder |-> builder, Packages |-> pkgs]

\* Commands.TargetDir: the builder's default binary directory
TargetDir(g) == IF g.Builder = "bb" THEN DefaultBbinDir ELSE DefaultBinaryDir

\* the groups that produce the command name
Producers(name, commands) ==
    {k \in 1..Len(commands) :
        \E i \in 1..Len(commands[k].Packages) : Base(commands[k].Packages[i]) = name}

\* resolveCommandOrPath: an absolute path is its own target; a name is the
\* entry of the first Command-Group that produces it
Resolves(cmd, commands) == IsAbs(cmd) \/ Producers(cmd[1], commands) # {}

resolveCommandOrPath(cmd, commands) ==
    IF IsAbs(cmd) THEN Tail(cmd)
    ELSE LET k == CHOOSE k \in Producers(cmd[1], commands) :
                      \A j \in Producers(cmd[1], commands) : k <= j
         IN  <<TargetDir(commands[k]), cmd[1]>>

\* filepath.Rel of the target to the directory of the link
Rel(dir, target) ==
    IF dir = <<>> THEN target
    ELSE IF Len(target) > 1 /\ target[1] = dir[1] THEN Tail(target)
    ELSE <<"..">> \o target

\* the outcome of a step of Create: the errors its error wraps, and the tree
Outcome(errs, t) == [errs |-> errs, t |-> t]

\* addSymlinkTo: no link for an empty setting; a setting that does not
\* resolve is an error when the build has Command-Groups and is passed over
\* when it has none; the link is a record added to the tree
addSymlinkTo(t, cmd, source, commands) ==
    IF cmd = NoCmd THEN Outcome({}, t)
    ELSE IF ~Resolves(cmd, commands)
    THEN Outcome(IF commands # <<>> THEN {errSymlink} ELSE {}, t)
    ELSE LET r == AddRecordOp(t, Symlink(source,
                                  Rel(Dir(source), resolveCommandOrPath(cmd, commands))))
         IN  Outcome(IF r.err = ErrNil THEN {} ELSE {r.err}, r.t)

\* the record of the uinit arguments
UinitFlags(args) == StaticFile(UinitFlagsPath, args, Mode0444)

addUinitArgs(t, args) ==
    IF args = <<>> THEN Outcome({}, t)
    ELSE LET r == AddRecordOp(t, UinitFlags(args))
         IN  Outcome(IF r.err = ErrNil THEN {} ELSE {r.err}, r.t)

\* a step that failed is wrapped with the error of its entry
Wrapped(o, err) == IF o.errs = {} THEN o ELSE Outcome(o.errs \cup {err}, o.t)

\* the special entries in the order of Create: uinit, its arguments, init,
\* the two names of the default shell; the first failure ends it
addSpecialEntries(t, opts) ==
    LET o1 == Wrapped(addSymlinkTo(t, opts.UinitCmd, UinitPath, opts.Commands),
                      errUinitSymlink)
        o2 == Wrapped(addUinitArgs(o1.t, opts.UinitArgs), errUinitArgs)
        o3 == Wrapped(addSymlinkTo(o2.t, opts.InitCmd, InitPath, opts.Commands),
                      errInitSymlink)
        o4 == Wrapped(addSymlinkTo(o3.t, opts.DefaultShell, ShPath, opts.Commands),
                      errDefaultshSymlink)
        o5 == Wrapped(addSymlinkTo(o4.t, opts.DefaultShell, DefaultshPath, opts.Commands),
                      errDefaultshSymlink)
    IN  IF o1.errs # {} THEN o1
        ELSE IF o2.errs # {} THEN o2
        ELSE IF o3.errs # {} THEN o3
        ELSE IF o4.errs # {} THEN o4
        ELSE o5

\* ParseExtraFiles: AddFile of every src:dest from k on
RECURSIVE parseExtraFiles(_, _, _)
parseExtraFiles(t, extra, k) ==
    IF k > Len(extra) THEN Outcome({}, t)
    ELSE LET r == AddFileOp(HostFS, t, extra[k].src, extra[k].dest)
         IN  IF r.err # ErrNil THEN Outcome({r.err}, r.t)
             ELSE parseExtraFiles(r.t, extra, k + 1)

\* what the builder of group g adds to the tree once it has compiled
buildGroup(t, g) ==
    IF g.Builder = "bb"
    THEN gbbAddFiles(t, [BinaryDir |-> "", Packages |-> g.Packages], FALSE)
    ELSE AddFileOp(TempFS(DefaultBinaryDir, {g.Packages[i] : i \in 1..Len(g.Packages)}, {}),
                   t, TempDir, <<>>)

\* inputs of Create
CmdSettings == {NoCmd, Systemd, <<"x">>, <<"foobar">>}

Groups == {Group("bb", <<<<"cmds", "x">>>>), Group("binary", <<<<"cmds", "y">>>>)}

CommandLists == UNION {[1..n -> Groups] : n \in 0..MaxGroups}

ExtraFile(dest) == [src |-> <<"h", "f1">>, dest |-> dest]

\* no extra file, one at a special path, one at each of them, or two files
\* for one path
ExtraFileLists ==
    {<<>>} \cup {<<ExtraFile(p)>> : p \in SpecialPaths}
    \cup {<<ExtraFile(InitPath), [src |-> <<"h", "f2">>, dest |-> InitPath]>>}
    \cup {<<ExtraFile(DefaultshPath), ExtraFile(ShPath), ExtraFile(UinitPath),
             ExtraFile(UinitFlagsPath), ExtraFile(InitPath)>>}

UinitArgLists == {<<>>, <<"-foo", "-bar">>}

InitCreate ==
    /\ Files = EmptyMap
    /\ Records = EmptyMap
    /\ last = NoOp
    /\ nOps = 0
    /\ w = Idle
    /\ b = Idle
    /\ \E init \in CmdSettings, uinit \in {NoCmd, Systemd}, args \in UinitArgLists,
          sh \in {NoCmd, Systemd}, cmds \in CommandLists, extra \in ExtraFileLists,
          hasBase \in BOOLEAN, useExistingInit \in BOOLEAN :
          /\ hasBase \/ ~useExistingInit
          /\ u = [pc |-> "build", k |-> 1, errs |-> {}, at |-> "none",
                  opts |-> [InitCmd |-> init, UinitCmd |-> uinit, UinitArgs |-> args,
                            DefaultShell |-> sh, Commands |-> cmds, ExtraFiles |-> extra,
                            BaseArchive |-> hasBase, UseExistingInit |-> useExistingInit]]

\* the builder of the next Command-Group runs and adds its entries to the tree
CreateBuild ==
    /\ u.pc = "build"
    /\ u.k <= Len(u.opts.Commands)
    /\ LET g == u.opts.Commands[u.k]
           r == buildGroup(CurTree, g)
       IN  \E ok \in BOOLEAN :
             IF ~ok
             THEN /\ u' = [u EXCEPT !.pc = "done", !.at = "build",
                                    !.errs = {IF g.Builder = "bb" THEN ErrBusyboxFailed
                                              ELSE ErrBinaryFailed}]
                  /\ UNCHANGED <<Files, Records>>
             ELSE /\ Files' = r.t.Files
                  /\ Records' = r.t.Records
                  /\ u' = IF r.err # ErrNil
                          THEN [u EXCEPT !.pc = "done", !.at = "build", !.errs = {r.err}]
                          ELSE [u EXCEPT !.k = u.k + 1]
    /\ UNCHANGED <<last, nOps, w, b>>

\* ParseExtraFiles, after the last Command-Group
CreateExtraFiles ==
    /\ u.pc = "build"
    /\ u.k > Len(u.opts.Commands)
    /\ LET o == parseExtraFiles(CurTree, u.opts.ExtraFiles, 1)
       IN  /\ Files' = o.t.Files
           /\ Records' = o.t.Records
           /\ u' = IF o.errs # {}
                   THEN [u EXCEPT !.pc = "done", !.at = "extra", !.errs = o.errs]
                   ELSE [u EXCEPT !.pc = "special"]
    /\ UNCHANGED <<last, nOps, w, b>>

\* the links of uinit, init and the default shell, and the uinit arguments
CreateSpecialEntries ==
    /\ u.pc = "special"
    /\ LET o == addSpecialEntries(CurTree, u.opts)
       IN  /\ Files' = o.t.Files
           /\ Records' = o.t.Records
           /\ u' = IF o.errs # {}
                   THEN [u EXCEPT !.pc = "done", !.at = "special", !.errs = o.errs]
                   ELSE [u EXCEPT !.pc = "write"]
    /\ UNCHANGED <<last, nOps, w, b>>

\* initramfs.Write is called with the tree, the base archive and the sink
CreateWrite ==
    /\ u.pc = "write"
    /\ u' = [u EXCEPT !.pc = "writing"]
    /\ LET base == IF u.opts.BaseArchive THEN <<BaseRecord(InitPath)>> ELSE <<>>
       IN  w' = [pc |-> "start", hasBase |-> u.opts.BaseArchive, base |-> base,
                 stream |-> base, useExistingInit |-> u.opts.UseExistingInit,
                 rename |-> FALSE, user |-> CurTree, merged |-> CurTree,
                 todo |-> <<>>, sink |-> <<>>, finished |-> 0, err |-> ErrNil]
    /\ UNCHANGED <<Files, Records, last, nOps, b>>

\* Write has returned: Create returns its error
CreateReturn ==
    /\ u.pc = "writing"
    /\ w.pc = "done"
    /\ u' = [u EXCEPT !.pc = "done", !.at = "write",
                      !.errs = IF w.err = ErrNil THEN {} ELSE {w.err}]
    /\ UNCHANGED <<Files, Records, last, nOps, w, b>>

NextCreate ==
    \/ CreateBuild \/ CreateExtraFiles \/ CreateSpecialEntries
    \/ CreateWrite \/ CreateReturn
    \/ WriteStart \/ ReadEOF \/ ReadError \/ ReadRecord
    \/ WriteTo \/ WriteRecord \/ WriteRecordError \/ Finish

SpecCreate == InitCreate /\ [][NextCreate]_vars

\* ------------------------------------------------- modifiers, OptionsFor
MaxMods == 3

\* no output sink
NoOutput == [kind |-> "none", path |-> ""]

\* the zero value of Opts, which OptionsFor starts from
ZeroOpts ==
    [TempDir |-> "", InitCmd |-> "", UinitCmd |-> "", UinitArgs |-> <<>>,
     DefaultShell |-> "", ExtraFiles |-> <<>>, Commands |-> <<>>,
     OutputFile |-> NoOutput, BaseArchive |-> "", UseExistingInit |-> FALSE]

\* a Command-Group of Opts.Commands
Cmds(builder, pkgs, buildOpts, shellBang) ==
    [Builder |-> builder, Packages |-> pkgs, BuildOpts |-> buildOpts,
     ShellBang |-> shellBang]

\* the modifiers
WithInit(v) == [kind |-> "WithInit", v |-> v]
WithUinit(cmd, args) == [kind |-> "WithUinit", v |-> cmd, args |-> args]
\* argv is the command line as shlex.Argv splits it
WithUinitCommand(argv) == [kind |-> "WithUinitCommand", v |-> argv]
WithShell(v) == [kind |-> "WithShell", v |-> v]
WithTempDir(v) == [kind |-> "WithTempDir", v |-> v]
WithCPIOOutput(path) == [kind |-> "WithCPIOOutput", v |-> path]
WithOutputDir(path) == [kind |-> "WithOutputDir", v |-> path]
WithFiles(files) == [kind |-> "WithFiles", v |-> files]
WithBaseFile(path) == [kind |-> "WithBaseFile", v |-> path]
WithExistingInit(use) == [kind |-> "WithExistingInit", v |-> use]
WithBusyboxCommands(pkgs) == [kind |-> "WithBusyboxCommands", v |-> pkgs]
WithCommands(buildOpts, builder, pkgs) ==
    [kind |-> "WithCommands", v |-> pkgs, builder |-> builder, buildOpts |-> buildOpts]
WithShellBang(sb) == [kind |-> "WithShellBang", v |-> sb]
WithBusyboxBuildOpts(g) == [kind |-> "WithBusyboxBuildOpts", v |-> g]

\* the first multi-call group of the commands, 0 if there is none
FirstBusybox(commands) ==
    IF \E k \in 1..Len(commands) : commands[k].Builder = "bb"
    THEN CHOOSE k \in 1..Len(commands) :
            /\ commands[k].Builder = "bb"
            /\ \A j \in 1..(k - 1) : commands[j].Builder # "bb"
    ELSE 0

\* the mutant of OnBusybox: a multi-call group without packages is replaced by
\* a new one
OnBusyboxFresh(commands) ==
    IF FirstBusybox(commands) = 0
    THEN Append(commands, Cmds("bb", <<>>, "", FALSE))
    ELSE IF commands[FirstBusybox(commands)].Packages = <<>>
    THEN [commands EXCEPT ![FirstBusybox(commands)] = Cmds("bb", <<>>, "", FALSE)]
    ELSE commands

\* the command groups with a multi-call group: an empty one is added when
\* there is none
OnBusybox(commands) ==
    IF FirstBusybox(commands) = 0
    THEN Append(commands, Cmds("bb", <<>>, "", FALSE)) ELSE commands

\* the mutant of uinitOf: the arguments of an earlier uinit are kept
uinitOfArgsKept(o, argv) ==
    [o EXCEPT !.UinitCmd = IF argv = <<>> THEN "" ELSE Head(argv),
              !.UinitArgs = IF Len(argv) > 1 THEN Tail(argv) ELSE o.UinitArgs]

\* the uinit command and its arguments are set from the words of the command
uinitOf(o, argv) ==
    [o EXCEPT !.UinitCmd = IF argv = <<>> THEN "" ELSE Head(argv),
              !.UinitArgs = IF Len(argv) > 1 THEN Tail(argv) ELSE <<>>]

\* WithFiles appends to the extra files
filesOf(old, files) == old \o files

\* the modifier m applied to the options o
ApplyMod(o, m) ==
    CASE m.kind = "WithInit" -> [o EXCEPT !.InitCmd = m.v]
      [] m.kind = "WithUinit" -> [o EXCEPT !.UinitCmd = m.v, !.UinitArgs = m.args]
      [] m.kind = "WithUinitCommand" -> uinitOf(o, m.v)
      [] m.kind = "WithShell" -> [o EXCEPT !.DefaultShell = m.v]
      [] m.kind = "WithTempDir" -> [o EXCEPT !.TempDir = m.v]
      [] m.kind = "WithCPIOOutput" ->
            [o EXCEPT !.OutputFile = [kind |-> "cpio", path |-> m.v]]
      [] m.kind = "WithOutputDir" ->
            [o EXCEPT !.OutputFile = [kind |-> "dir", path |-> m.v]]
      [] m.kind = "WithFiles" -> [o EXCEPT !.ExtraFiles = filesOf(o.ExtraFiles, m.v)]
      [] m.kind = "WithBaseFile" -> [o EXCEPT !.BaseArchive = m.v]
      [] m.kind = "WithExistingInit" -> [o EXCEPT !.UseExistingInit = m.v]
      [] m.kind = "WithBusyboxCommands" ->
            [o EXCEPT !.Commands =
                [OnBusybox(o.Commands) EXCEPT
                    ![FirstBusybox(OnBusybox(o.Commands))].Packages = @ \o m.v]]
      [] m.kind = "WithCommands" ->
            [o EXCEPT !.Commands =
                Append(o.Commands, Cmds(m.builder, m.v, m.buildOpts, FALSE))]
      [] m.kind = "WithShellBang" ->
            [o EXCEPT !.Commands =
                [OnBusybox(o.Commands) EXCEPT
                    ![FirstBusybox(OnBusybox(o.Commands))].ShellBang = m.v]]
      [] m.kind = "WithBusyboxBuildOpts" ->
            [o EXCEPT !.Commands =
                [OnBusybox(o.Commands) EXCEPT
                    ![FirstBusybox(OnBusybox(o.Commands))].BuildOpts = m.v]]

\* OptionsFor: the modifiers mods[k..] applied in order
RECURSIVE OptionsFrom(_, _, _)
OptionsFrom(o, mods, k) ==
    IF k > Len(mods) THEN o ELSE OptionsFrom(ApplyMod(o, mods[k]), mods, k + 1)

OptionsFor(mods) == OptionsFrom(ZeroOpts, mods, 1)

\* inputs of OptionsFor
ModSet ==
    {WithInit("init"), WithInit(""),
     WithUinit("gosh", <<"script.sh">>), WithUinitCommand(<<"cat">>),
     WithUinitCommand(<<>>),
     WithShell("gosh"), WithShell(""),
     WithTempDir("foo"), WithTempDir(""),
     WithCPIOOutput("/tmp/initramfs.cpio"), WithOutputDir(""),
     WithFiles(<<"foobar">>), WithBusyboxCommands(<<"gosh">>),
     WithCommands("", "binary", <<"test2json">>),
     WithShellBang(TRUE), WithBusyboxBuildOpts("NoStrip")}

ModLists == UNION {[1..n -> ModSet] : n \in 0..MaxMods}

InitOptions ==
    /\ Files = EmptyMap
    /\ Records = EmptyMap
    /\ last = NoOp
    /\ nOps = 0
    /\ w = Idle
    /\ b = Idle
    /\ \E mods \in ModLists : u = [pc |-> "apply", mods |-> mods, i |-> 0, opts |-> ZeroOpts]

\* OptionsFor applies the next modifier
ApplyModifier ==
    /\ u.pc = "apply"
    /\ u.i < Len(u.mods)
    /\ u' = [u EXCEPT !.i = u.i + 1, !.opts = ApplyMod(u.opts, u.mods[u.i + 1])]
    /\ UNCHANGED <<Files, Records, last, nOps, w, b>>

\* OptionsFor returns the options
OptionsReturn ==
    /\ u.pc = "apply"
    /\ u.i = Len(u.mods)
    /\ u' = [u EXCEPT !.pc = "done"]
    /\ UNCHANGED <<Files, Records, last, nOps, w, b>>

NextOptions == ApplyModifier \/ OptionsReturn

SpecOptions == InitOptions /\ [][NextOptions]_vars

\* ------------------------------------------------- uimageOpts
ErrInvalid == "os.ErrInvalid"
ErrTemplateNotExist == "ErrTemplateNotExist"

\* a list of modifiers, or the error in its place
Mods(err, mods) == [err |-> err, mods |-> mods]

\* CommandFlags.Modifiers (the modifier of the environment is left out: the
\* options of the model have no environment)
CommandFlagsModifiers(c, packages) ==
    IF c.NoCommands THEN Mods(ErrNil, <<>>)
    ELSE IF c.Builder \in {"bb", "gbb"}
    THEN Mods(ErrNil, <<WithBusyboxCommands(packages), WithShellBang(c.ShellBang),
                         WithBusyboxBuildOpts(c.BuildOpts)>>)
    ELSE IF c.Builder = "binary"
    THEN Mods(ErrNil, <<WithCommands(c.BuildOpts, "binary", packages)>>)
    ELSE Mods(ErrInvalid, <<>>)

\* Flags.Modifiers
FlagsModifiers(f, packages) ==
    LET m == <<WithTempDir(f.TempDir), WithInit(f.Init), WithUinitCommand(f.Uinit),
               WithShell(f.Shell), WithFiles(f.Files), WithBaseFile(f.BaseArchive),
               WithExistingInit(f.UseExistingInit)>>
        more == CommandFlagsModifiers(f.Commands, packages)
    IN  IF f.ArchiveFormat \notin {"cpio", "dir"} THEN Mods(ErrInvalid, <<>>)
        ELSE IF more.err # ErrNil THEN more
        ELSE Mods(ErrNil, m \o
                          <<IF f.ArchiveFormat = "cpio" THEN WithCPIOOutput(f.OutputFile)
                            ELSE WithOutputDir(f.OutputFile)>> \o more.mods)

\* Templates.CommandsFor: a name of the commands section stands for its
\* packages, any other name for itself
RECURSIVE CommandsFrom(_, _, _)
CommandsFrom(tpl, names, k) ==
    IF k > Len(names) THEN <<>>
    ELSE (IF names[k] \in DOMAIN tpl.Commands THEN tpl.Commands[names[k]]
          ELSE <<names[k]>>) \o CommandsFrom(tpl, names, k + 1)

CommandsFor(tpl, names) == CommandsFrom(tpl, names, 1)

\* the modifiers of the Command-Groups of a configuration, from group k on
RECURSIVE GroupMods(_, _, _)
GroupMods(tpl, groups, k) ==
    IF k > Len(groups) THEN <<>>
    ELSE <<IF groups[k].Builder = "bb"
           THEN WithBusyboxCommands(CommandsFor(tpl, groups[k].Commands))
           ELSE WithCommands("", "binary", CommandsFor(tpl, groups[k].Commands))>>
         \o GroupMods(tpl, groups, k + 1)

\* Templates.Uimage: the modifiers of the configuration conf
TemplateUimage(tpl, conf) ==
    IF conf \notin DOMAIN tpl.Configs THEN Mods(ErrTemplateNotExist, <<>>)
    ELSE LET c == tpl.Configs[conf]
         IN  Mods(ErrNil, <<WithFiles(c.Files), WithInit(c.Init), WithUinitCommand(c.Uinit),
                            WithShell(c.Shell)>> \o GroupMods(tpl, c.Commands, 1))

\* the mutant of layered: the modifiers of the flags come first
layeredFlagsFirst(m, tplMods, more) == (more \o m) \o tplMods

\* m = append(m, mods...) and append(m, more...): the given modifiers, then
\* the template's, then those of the flags
layered(m, tplMods, more) == (m \o tplMods) \o more

\* inputs of uimageOpts
NoTemplates == [Commands |-> EmptyMap, Configs |-> EmptyMap]

TemplateCommand(builder, names) == [Builder |-> builder, Commands |-> names]

Templates ==
    [Commands |-> ("core" :> <<"init", "gosh">>),
     Configs |->
        ("plan9" :> [Files |-> <<"foobar">>, Init |-> "", Uinit |-> <<"gosh", "script.sh">>,
                     Shell |-> "",
                     Commands |-> <<TemplateCommand("bb", <<"gosh">>),
                                    TemplateCommand("binary", <<"test2json">>)>>])
        @@ ("files" :> [Files |-> <<"f1", "f2">>, Init |-> "init", Uinit |-> <<>>,
                        Shell |-> "gosh", Commands |-> <<>>])]

BaseMods ==
    {<<>>,
     <<WithCPIOOutput("/tmp/initramfs.cpio"), WithTempDir("foo")>>,
     <<WithFiles(<<"default">>), WithBusyboxCommands(<<"init">>)>>}

FlagSets ==
    {[TempDir |-> "", Init |-> "init", Uinit |-> <<"cat">>, Shell |-> "",
      Files |-> files, BaseArchive |-> "", UseExistingInit |-> FALSE,
      ArchiveFormat |-> format, OutputFile |-> "./foo.cpio",
      Commands |-> [NoCommands |-> nocmd, Builder |-> builder, ShellBang |-> FALSE,
                    BuildOpts |-> ""]] :
        files \in {<<>>, <<"/bin/bash">>}, format \in {"cpio", "dir", "zip"},
        nocmd \in BOOLEAN, builder \in {"bb", "binary", "source"}}

CmdArgs == {<<>>, <<"init", "cat">>, <<"core", "cat">>}

InitUimageOpts ==
    /\ Files = EmptyMap
    /\ Records = EmptyMap
    /\ last = NoOp
    /\ nOps = 0
    /\ w = Idle
    /\ b = Idle
    /\ \E m \in BaseMods, hasTpl \in BOOLEAN, conf \in {"", "plan9", "files", "plan10"},
          f \in FlagSets, cmds \in CmdArgs :
          /\ hasTpl \/ conf = ""
          /\ u = [pc |-> "template", m |-> m, hasTpl |-> hasTpl, conf |-> conf,
                  tpl |-> IF hasTpl THEN Templates ELSE NoTemplates,
                  f |-> f, cmds |-> cmds, tplMods |-> <<>>, more |-> <<>>,
                  mods |-> <<>>, i |-> 0, opts |-> ZeroOpts, err |-> ErrNil]

\* the template is evaluated first, and the command templates are expanded
UimageOptsTemplate ==
    /\ u.pc = "template"
    /\ LET r == IF u.conf # "" THEN TemplateUimage(u.tpl, u.conf) ELSE Mods(ErrNil, <<>>)
       IN  u' = IF r.err # ErrNil THEN [u EXCEPT !.pc = "done", !.err = r.err]
                ELSE [u EXCEPT !.pc = "flags", !.tplMods = r.mods,
                               !.cmds = IF u.hasTpl THEN CommandsFor(u.tpl, u.cmds)
                                        ELSE u.cmds]
    /\ UNCHANGED <<Files, Records, last, nOps, w, b>>

\* the modifiers of the flags come last
UimageOptsFlags ==
    /\ u.pc = "flags"
    /\ LET r == FlagsModifiers(u.f, u.cmds)
       IN  u' = IF r.err # ErrNil THEN [u EXCEPT !.pc = "done", !.err = r.err]
                ELSE [u EXCEPT !.pc = "apply", !.more = r.mods,
                               !.mods = layered(u.m, u.tplMods, r.mods)]
    /\ UNCHANGED <<Files, Records, last, nOps, w, b>>

NextUimageOpts ==
    UimageOptsTemplate \/ UimageOptsFlags \/ ApplyModifier \/ OptionsReturn

SpecUimageOpts == InitUimageOpts /\ [][NextUimageOpts]_vars

\* ------------------------------------------------- CreateUimage
ErrMkdir == "mkdir error"

\* the directory os.MkdirTemp makes
MkdirTempDir == "/tmp/u-root1"

\* what opts.Create can return: nil, a failed multi-call build, a failed
\* per-binary build, an unresolvable init, a conflicting extra file, a
\* failed write
CreateResults ==
    {{}, {ErrBusyboxFailed}, {ErrBinaryFailed}, {errSymlink, errInitSymlink},
     {ErrExist, errInitSymlink}, {ErrWrite}}

\* errors.Is(err, target) on the errors a returned error wraps
ErrorsIs(errs, target) == target \in errs

\* the mutant of defers: the removal is deferred for a supplied directory too
defersAlways(tempDir) == TRUE

\* the deferred function is registered only in the branch that makes the
\* directory, taken when no directory was given
defers(tempDir) == tempDir = ""

\* the deferred function ignores the local variable and reads the flag
keepsFlag(keepTempDir, f) == f.KeepTempDir

\* the deferred function keeps the directory when the local variable is set
keeps(keepTempDir, f) == keepTempDir

\* the flags of CreateUimage: the flags of uimageOpts with the temporary
\* directory and KeepTempDir
UimageFlagSets ==
    {[TempDir |-> td, KeepTempDir |-> keep, Init |-> f.Init, Uinit |-> f.Uinit,
      Shell |-> f.Shell, Files |-> f.Files, BaseArchive |-> f.BaseArchive,
      UseExistingInit |-> f.UseExistingInit, ArchiveFormat |-> f.ArchiveFormat,
      OutputFile |-> f.OutputFile, Commands |-> f.Commands] :
        f \in FlagSets, td \in {"", "foo"}, keep \in BOOLEAN}

\* dir is the state of the directory f.TempDir names: "absent", "exists" or
\* "removed"; deferred is whether the deferred function was registered
InitCreateUimage ==
    /\ Files = EmptyMap
    /\ Records = EmptyMap
    /\ last = NoOp
    /\ nOps = 0
    /\ w = Idle
    /\ b = Idle
    /\ \E base \in BaseMods, f \in UimageFlagSets, args \in CmdArgs,
          dir \in {"absent", "exists"} :
          /\ f.TempDir = "" => dir = "absent"
          /\ u = [pc |-> "tempdir", base |-> base, f |-> f, args |-> args,
                  keepTempDir |-> f.KeepTempDir, deferred |-> FALSE,
                  supplied |-> f.TempDir # "", dir |-> dir,
                  opts |-> ZeroOpts, created |-> FALSE, createErr |-> {},
                  err |-> {}]

\* the temporary directory is made when none was given, and the supplied one
\* when it does not exist; either can fail
CreateUimageTempDir ==
    /\ u.pc = "tempdir"
    /\ \E ok \in BOOLEAN :
          u' = IF u.f.TempDir = ""
               THEN IF ok
                    THEN [u EXCEPT !.pc = "modifiers", !.f.TempDir = MkdirTempDir,
                                   !.dir = "exists",
                                   !.deferred = defers(u.f.TempDir)]
                    ELSE [u EXCEPT !.pc = "done", !.err = {ErrMkdir}]
               ELSE IF u.dir = "absent"
                    THEN IF ok
                         THEN [u EXCEPT !.pc = "modifiers", !.dir = "exists",
                                        !.deferred = defers(u.f.TempDir)]
                         ELSE [u EXCEPT !.pc = "done", !.err = {ErrMkdir}]
                    ELSE [u EXCEPT !.pc = "modifiers",
                                   !.deferred = defers(u.f.TempDir)]
    /\ UNCHANGED <<Files, Records, last, nOps, w, b>>

\* the modifiers of the flags follow the base modifiers
CreateUimageOptions ==
    /\ u.pc = "modifiers"
    /\ LET r == FlagsModifiers(u.f, u.args)
       IN  u' = IF r.err # ErrNil THEN [u EXCEPT !.pc = "return", !.err = {r.err}]
                ELSE [u EXCEPT !.pc = "create",
                               !.opts = OptionsFor(u.base \o r.mods)]
    /\ UNCHANGED <<Files, Records, last, nOps, w, b>>

\* opts.Create runs; a failed multi-call build sets keepTempDir
CreateUimageCreate ==
    /\ u.pc = "create"
    /\ \E errs \in CreateResults :
          u' = [u EXCEPT !.pc = "return", !.created = TRUE, !.createErr = errs,
                         !.err = errs,
                         !.keepTempDir = IF ErrorsIs(errs, ErrBusyboxFailed)
                                         THEN TRUE ELSE @]
    /\ UNCHANGED <<Files, Records, last, nOps, w, b>>

\* the deferred function runs on return
CreateUimageReturn ==
    /\ u.pc = "return"
    /\ u' = [u EXCEPT !.pc = "done",
                      !.dir = IF u.deferred /\ ~keeps(u.keepTempDir, u.f)
                              THEN "removed" ELSE @]
    /\ UNCHANGED <<Files, Records, last, nOps, w, b>>

NextCreateUimage ==
    \/ CreateUimageTempDir \/ CreateUimageOptions
    \/ CreateUimageCreate \/ CreateUimageReturn

SpecCreateUimage == InitCreateUimage /\ [][NextCreateUimage]_vars

\* ------------------------------------------------- realMain
\* realMain is the older entry point: the deferred function is chosen from
\* f.KeepTempDir when the directory is made, uimageOpts composes the options,
\* and the result of opts.Create is returned as it is
InitRealMain ==
    /\ Files = EmptyMap
    /\ Records = EmptyMap
    /\ last = NoOp
    /\ nOps = 0
    /\ w = Idle
    /\ b = Idle
    /\ \E m \in BaseMods, hasTpl \in BOOLEAN, conf \in {"", "plan9", "plan10"},
          f \in UimageFlagSets, cmds \in CmdArgs, dir \in {"absent", "exists"} :
          /\ hasTpl \/ conf = ""
          /\ f.TempDir = "" => dir = "absent"
          /\ u = [pc |-> "mainTempdir", m |-> m, hasTpl |-> hasTpl, conf |-> conf,
                  tpl |-> IF hasTpl THEN Templates ELSE NoTemplates,
                  f |-> f, cmds |-> cmds, tplMods |-> <<>>, more |-> <<>>,
                  mods |-> <<>>, i |-> 0, opts |-> ZeroOpts, err |-> ErrNil,
                  removes |-> FALSE, supplied |-> f.TempDir # "", dir |-> dir,
                  created |-> FALSE, createErr |-> {}, ret |-> {}]

\* the temporary directory is made when none was given, and the supplied one
\* when it does not exist; os.RemoveAll is deferred only for a directory
\* realMain made and only when KeepTempDir is not set
RealMainTempDir ==
    /\ u.pc = "mainTempdir"
    /\ \E ok \in BOOLEAN :
          u' = IF u.f.TempDir = ""
               THEN IF ok
                    THEN [u EXCEPT !.pc = "template", !.f.TempDir = MkdirTempDir,
                                   !.dir = "exists",
                                   !.removes = defers(u.f.TempDir)
                                               /\ ~u.f.KeepTempDir]
                    ELSE [u EXCEPT !.pc = "exit", !.ret = {ErrMkdir}]
               ELSE IF u.dir = "absent"
                    THEN IF ok
                         THEN [u EXCEPT !.pc = "template", !.dir = "exists",
                                        !.removes = defers(u.f.TempDir)
                                                    /\ ~u.f.KeepTempDir]
                         ELSE [u EXCEPT !.pc = "exit", !.ret = {ErrMkdir}]
                    ELSE [u EXCEPT !.pc = "template",
                                   !.removes = defers(u.f.TempDir)
                                               /\ ~u.f.KeepTempDir]
    /\ UNCHANGED <<Files, Records, last, nOps, w, b>>

\* uimageOpts has returned the options: opts.Create runs
RealMainCreate ==
    /\ "ret" \in DOMAIN u
    /\ u.pc = "done"
    /\ u.err = ErrNil
    /\ \E errs \in CreateResults :
          u' = [u EXCEPT !.pc = "mainReturn", !.created = TRUE,
                         !.createErr = errs, !.ret = errs]
    /\ UNCHANGED <<Files, Records, last, nOps, w, b>>

\* realMain returns the error of uimageOpts or the result of opts.Create, and
\* the deferred function runs
RealMainReturn ==
    /\ "ret" \in DOMAIN u
    /\ \/ u.pc = "mainReturn"
       \/ u.pc = "done" /\ u.err # ErrNil
    /\ u' = [u EXCEPT !.pc = "exit",
                      !.ret = IF u.pc = "done" THEN {u.err} ELSE @,
                      !.dir = IF u.removes THEN "removed" ELSE @]
    /\ UNCHANGED <<Files, Records, last, nOps, w, b>>

NextRealMain ==
    \/ RealMainTempDir \/ UimageOptsTemplate \/ UimageOptsFlags
    \/ ApplyModifier \/ OptionsReturn \/ RealMainCreate \/ RealMainReturn

\* the two entry points of the tool
InitMain == InitCreateUimage \/ InitRealMain

NextMain == NextCreateUimage \/ NextRealMain

SpecMain == InitMain /\ [][NextMain]_vars

\* ------------------------------------------------------- claims on Write
\* the records the sink holds at path p
SinkAt(p) == {w.sink[i] : i \in {j \in 1..Len(w.sink) : w.sink[j].Name = p}}

BaseNames == {w.stream[i].Name : i \in 1..Len(w.stream)}

BaseAt(p) == CHOOSE r \in {w.stream[i] : i \in 1..Len(w.stream)} : r.Name = p

\* Write has returned nil
WriteOK == w.pc = "done" /\ w.err = ErrNil

\* the user tree's init entry is moved to inito before the base is streamed
PreRenamed == w.hasBase /\ w.useExistingInit /\ Contains(w.user, InitPath)

UserWinsAt(P) == SinkAt(P) = {SinkRecord(w.user, P)}

FromBase(s, r) == s = [MakeReproducible(r) EXCEPT !.Name = s.Name]

InitCollision == w.hasBase /\ InitPath \in Keys(w.user) /\ InitPath \in BaseNames

\* the base archive's init, with its content and mode, is what the sink holds at p
BaseInitAt(p) ==
    /\ Cardinality(SinkAt(p)) = 1
    /\ \A s \in SinkAt(p) : FromBase(s, BaseAt(InitPath))

OthersKeepName ==
    \A i \in 1..Len(w.stream) : \A j \in 1..Len(w.sink) :
        (w.stream[i].Name # InitPath /\ FromBase(w.sink[j], w.stream[i]))
            => w.sink[j].Name = w.stream[i].Name

InitoFree ==
    /\ InitoPath \notin Keys(w.user)
    /\ \A i, j \in 1..Len(w.stream) :
          (w.stream[i].Name = InitoPath /\ w.stream[j].Name = InitPath) => j < i

UserInitAsInito ==
    IF InitPath \in DOMAIN w.user.Records
    THEN MakeReproducible([w.user.Records[InitPath] EXCEPT !.Name = InitoPath])
    ELSE FileRecord(w.user.Files[InitPath], InitoPath)

\* C3: UseExistingInit true, tree and base both define init: the sink holds
\* the base's init at init and the tree's former init entry at inito.
C3_InitInverted ==
    (WriteOK /\ InitCollision /\ w.useExistingInit) =>
        /\ BaseInitAt(InitPath)
        /\ SinkAt(InitoPath) = {UserInitAsInito}

\* Write returned nil with the base's init at init and the user's at inito
C3_Witness ==
    /\ WriteOK /\ InitCollision /\ w.useExistingInit
    /\ SinkAt(InitPath) = {StaticFile(InitPath, "boo", Mode0555)}
    /\ SinkAt(InitoPath) = {StaticFile(InitoPath, "bar", Mode0444)}

\* Write has returned an error
WriteFailed == w.pc = "done" /\ w.err # ErrNil

\* C14: whenever Write returns an error, no record has been written to the
\* output sink.
C14_AllOrNothing == WriteFailed => w.sink = <<>>

\* C15: when Write has returned, Finish has been called exactly once, and
\* Finish is called only when no record remains to be written.
C15_FinishOnce ==
    /\ w.pc = "done" => w.finished = 1
    /\ w.finished > 0 => (w.finished = 1 /\ w.todo = <<>> /\ w.pc = "done")

\* the base archive supplies the directory etc, and the user tree claims
\* etc/f without claiming etc
BaseDirBelowUser ==
    /\ w.hasBase
    /\ EtcPath \in BaseNames
    /\ EtcFPath \in Keys(w.user)
    /\ EtcPath \notin Keys(w.user)

\* C24: no default directory is in the tree before the base archive has been
\* merged, and when the base archive supplies a directory the user tree
\* claims a path below without claiming the directory, the sink holds the
\* base archive's record of the directory
C24_ParentsAfterMerge ==
    /\ w.pc \in {"start", "read", "writeTo"} =>
          \A p \in DOMAIN Records : Records[p] # Directory(p, DefaultDirMode)
    /\ (WriteOK /\ BaseDirBelowUser) =>
          SinkAt(EtcPath) = {MakeReproducible(BaseAt(EtcPath))}

\* the sink holds etc with the base archive's mode above the user's etc/f
C24_Witness ==
    /\ WriteOK /\ BaseDirBelowUser
    /\ SinkAt(EtcPath) = {Directory(EtcPath, Mode0444)}
    /\ SinkAt(EtcFPath) = {SinkRecord(w.user, EtcFPath)}

\* ------------------------------------------------------ claims on Create
\* Create has returned
CreateReturned == u.pc = "done"

\* Create returned before Write was called
NothingWritten == w = Idle

\* C16: when init is set to a command that is neither an absolute path nor
\* produced by a Command-Group of the build, Create fails and writes nothing,
\* and unless an earlier step failed its error wraps errSymlink and
\* errInitSymlink; also in a build without Command-Groups.
C16_Unresolvable ==
    (CreateReturned /\ u.opts.InitCmd # NoCmd
                    /\ ~Resolves(u.opts.InitCmd, u.opts.Commands)) =>
        /\ u.at \in {"build", "extra", "special"}
        /\ u.errs # {} /\ NothingWritten
        /\ u.at = "special" =>
              \/ u.errs \cap {errUinitSymlink, errUinitArgs} # {}
              \/ {errSymlink, errInitSymlink} \subseteq u.errs

\* the special paths that hold an extra file of the user
ExtraAt == {u.opts.ExtraFiles[i].dest : i \in 1..Len(u.opts.ExtraFiles)}

\* the setting of the special path P is not empty
Setting(P) ==
    IF P = InitPath THEN u.opts.InitCmd # NoCmd
    ELSE IF P = UinitPath THEN u.opts.UinitCmd # NoCmd
    ELSE IF P = UinitFlagsPath THEN u.opts.UinitArgs # <<>>
    ELSE u.opts.DefaultShell # NoCmd

EntryErr(P) ==
    IF P = InitPath THEN errInitSymlink
    ELSE IF P = UinitPath THEN errUinitSymlink
    ELSE IF P = UinitFlagsPath THEN errUinitArgs
    ELSE errDefaultshSymlink

\* the extra files at the path of a setting that is not empty
Conflicting == {P \in ExtraAt : Setting(P)}

\* C17: once the builders and the extra files went through, an extra file
\* at a special path whose setting is not empty makes Create fail before
\* anything is written, with os.ErrExist and the error of such an entry
\* (unless a setting does not resolve, which is errSymlink); with no such
\* file Create does not fail with os.ErrExist, and the tree handed to Write
\* holds every extra file at its path.
C17_ExtraFileConflict ==
    (CreateReturned /\ u.at \notin {"build", "extra"}) =>
        /\ Conflicting # {} =>
              /\ u.at = "special" /\ NothingWritten
              /\ errSymlink \notin u.errs =>
                    /\ ErrExist \in u.errs
                    /\ \E P \in Conflicting : EntryErr(P) \in u.errs
        /\ Conflicting = {} =>
              /\ ErrExist \notin u.errs
              /\ u.at = "write" =>
                    \A i \in 1..Len(u.opts.ExtraFiles) :
                        /\ u.opts.ExtraFiles[i].dest \in DOMAIN w.user.Files
                        /\ w.user.Files[u.opts.ExtraFiles[i].dest]
                              = u.opts.ExtraFiles[i].src

\* every setting that is not empty resolves, or the build has Command-Groups
NoneSkipped ==
    \/ u.opts.Commands # <<>>
    \/ \A cmd \in {u.opts.InitCmd, u.opts.UinitCmd, u.opts.DefaultShell} :
           cmd = NoCmd \/ Resolves(cmd, u.opts.Commands)

\* --------------------------------------------------- claims on modifiers
\* the last of the modifiers applied so far whose kind is in kinds, 0 if none
LastOf(kinds) ==
    LET S == {k \in 1..u.i : u.mods[k].kind \in kinds}
    IN  IF S = {} THEN 0 ELSE CHOOSE k \in S : \A j \in S : j <= k

\* the value the last modifier of these kinds gave, zero if none was applied
LastValue(kinds, zero) ==
    IF LastOf(kinds) = 0 THEN zero ELSE u.mods[LastOf(kinds)].v

\* the uinit command and arguments the modifier m gives
UinitGiven(m) ==
    IF m.kind = "WithUinit" THEN <<m.v, m.args>>
    ELSE <<IF m.v = <<>> THEN "" ELSE m.v[1],
           IF m.v = <<>> THEN <<>> ELSE SubSeq(m.v, 2, Len(m.v))>>

UinitKinds == {"WithUinit", "WithUinitCommand"}

OutputKinds == {"WithCPIOOutput", "WithOutputDir"}

RECURSIVE Gathered(_, _, _)
Gathered(mods, k, kind) ==
    IF k = 0 THEN <<>>
    ELSE Gathered(mods, k - 1, kind)
         \o (IF mods[k].kind = kind THEN mods[k].v ELSE <<>>)

\* uimageOpts has returned options
UimageOptsOK == u.pc = "done" /\ u.err = ErrNil

\* the files and the multi-call packages of the selected configuration
ConfigFiles == IF u.conf = "" THEN <<>> ELSE u.tpl.Configs[u.conf].Files

ConfigBusybox ==
    IF u.conf = "" THEN <<>>
    ELSE Gathered(GroupMods(u.tpl, u.tpl.Configs[u.conf].Commands, 1),
                  Len(u.tpl.Configs[u.conf].Commands), "WithBusyboxCommands")

\* the packages of the command line, when the flags ask for the multi-call build
FlagBusybox ==
    IF ~u.f.Commands.NoCommands /\ u.f.Commands.Builder = "bb" THEN u.cmds ELSE <<>>

\* C19: uimageOpts applies the given default modifiers, then those of the
\* selected configuration, then those of the flags; the extra files and the
\* packages of the multi-call group grow with every modifier and end as the
\* defaults' followed by the configuration's followed by the flags'.
C19_Layering ==
    (u.pc \in {"apply", "done"} /\ u.err = ErrNil) =>
        /\ u.mods = (u.m \o u.tplMods) \o u.more
        /\ u.opts.ExtraFiles = Gathered(u.mods, u.i, "WithFiles")
        /\ \A k \in 1..Len(u.opts.Commands) :
              k = FirstBusybox(u.opts.Commands) =>
                 u.opts.Commands[k].Packages
                    = Gathered(u.mods, u.i, "WithBusyboxCommands")
        /\ u.pc = "done" =>
              /\ u.opts.ExtraFiles
                    = (Gathered(u.m, Len(u.m), "WithFiles") \o ConfigFiles) \o u.f.Files
              /\ (ConfigBusybox \o FlagBusybox # <<>>) =>
                    /\ FirstBusybox(u.opts.Commands) # 0
                    /\ u.opts.Commands[FirstBusybox(u.opts.Commands)].Packages
                          = (Gathered(u.m, Len(u.m), "WithBusyboxCommands")
                             \o ConfigBusybox) \o FlagBusybox

\* the configuration plan9 with files and packages on the command line, as
\* in the test of the template and command line combination
C19_Witness ==
    /\ UimageOptsOK
    /\ u.conf = "plan9"
    /\ u.m = <<WithCPIOOutput("/tmp/initramfs.cpio"), WithTempDir("foo")>>
    /\ u.opts.ExtraFiles = <<"foobar", "/bin/bash">>
    /\ Len(u.opts.Commands) = 2
    /\ u.opts.Commands[1].Packages = <<"gosh", "init", "cat">>
    /\ u.opts.Commands[2].Packages = <<"test2json">>
    /\ u.opts.UinitCmd = "cat" /\ u.opts.UinitArgs = <<>>

\* the modifiers with those at i and j exchanged
Swapped(mods, i, j) ==
    [k \in 1..Len(mods) |-> IF k = i THEN mods[j] ELSE IF k = j THEN mods[i]
                            ELSE mods[k]]

\* an option of the multi-call build at i next to the multi-call commands at j
BusyboxPair(mods, i, j) ==
    /\ mods[i].kind \in {"WithBusyboxBuildOpts", "WithShellBang"}
    /\ mods[j].kind = "WithBusyboxCommands"
    /\ (j = i + 1 \/ i = j + 1)

\* C23: WithBusyboxBuildOpts or WithShellBang applied just before
\* WithBusyboxCommands gives the same options as applied just after it
C23_BusyboxCommute ==
    u.pc = "done" =>
        \A i, j \in 1..Len(u.mods) :
            BusyboxPair(u.mods, i, j) =>
                OptionsFor(Swapped(u.mods, i, j)) = u.opts

\* the shell-bang option came first and made the group the packages joined
C23_Witness ==
    /\ u.pc = "done"
    /\ u.mods = <<WithShellBang(TRUE), WithBusyboxCommands(<<"gosh">>),
                  WithBusyboxBuildOpts("NoStrip")>>
    /\ u.opts.Commands = <<Cmds("bb", <<"gosh">>, "NoStrip", TRUE)>>

\* ------------------------------------------------ claims on CreateUimage
\* C20: once opts.Create has returned an error matching ErrBusyboxFailed, the
\* temporary directory exists when CreateUimage has returned, whatever
\* KeepTempDir is and whether the directory was made by CreateUimage or
\* supplied
C20_BusyboxKeepsTempDir ==
    (u.pc = "done" /\ u.created /\ ErrorsIs(u.createErr, ErrBusyboxFailed)) =>
        /\ u.dir = "exists"
        /\ u.err = u.createErr

\* CreateUimage made the directory, KeepTempDir is not set, the multi-call
\* build failed and the directory is still there
C20_Witness ==
    /\ u.pc = "done"
    /\ u.created
    /\ ErrorsIs(u.createErr, ErrBusyboxFailed)
    /\ ~u.supplied
    /\ ~u.f.KeepTempDir
    /\ u.dir = "exists"

\* the entry point has returned
MainReturned == IF "ret" \in DOMAIN u THEN u.pc = "exit" ELSE u.pc = "done"

\* CreateUimage keeps the directory after a failed multi-call build
KeptForBusybox ==
    /\ "ret" \notin DOMAIN u
    /\ ErrorsIs(u.createErr, ErrBusyboxFailed)

ModifiersReturned == u.pc \in {"create", "return", "done"} /\ u.err # {ErrMkdir}

UnknownNames ==
    \/ u.f.Commands.Builder \notin {"bb", "gbb", "binary"}
    \/ u.f.ArchiveFormat \notin {"cpio", "dir"}

\* C22: with an unknown build-mode name or an unknown output-format name,
\* Flags.Modifiers returns an error matching os.ErrInvalid and no modifiers:
\* no options are composed and opts.Create is not run
C22_UnknownNames ==
    (ModifiersReturned /\ UnknownNames) =>
        /\ ErrorsIs(u.err, ErrInvalid)
        /\ u.opts = ZeroOpts
        /\ ~u.created

\* ------------------------------------------------------- claims on Build
\* Build has got past the checks of its options
OptsOK == b.opts.Env /\ b.opts.TempDir

\* wg.Wait() has returned
Joined == OptsOK /\ b.pc \in {"addFile", "done"}

Failed == {k \in 1..Len(b.result) : b.result[k] # NilError}

\* C8: every unit is started before Build waits, Build does not get past the
\* wait before every unit has finished, and every unit delivers its one result
\* whether or not another unit failed.
C8_AllUnitsJoined ==
    /\ (OptsOK /\ b.pc \in {"wait", "addFile", "done"}) =>
          \A i \in AllUnits : b.unit[i] # "idle"
    /\ Joined =>
          /\ \A i \in AllUnits : b.unit[i] = "done"
          /\ Len(b.sent) = Len(b.opts.Packages)
          /\ \A i \in AllUnits : \E k \in 1..Len(b.sent) : b.sent[k] = i

\* Build returned after unit 1 failed and unit 2 then compiled its package
C8_Witness ==
    /\ b.pc = "done"
    /\ b.sent = <<1, 2>>
    /\ b.result[1] # NilError
    /\ b.result[2] = NilError
    /\ b.opts.Packages[2] \in b.built

\* the binary of a package that compiled lies on a path the tree held as a record
TempDirConflict ==
    \E p \in b.built : <<binaryDirOf(b.opts), Base(p)>> \in DOMAIN b.tree0.Records

\* C9: Build returns the error of a unit if and only if some unit reported
\* one, and then the first one in the order of delivery; otherwise it
\* returns what AddFile of the temp directory returns.
C9_FirstError ==
    (Joined /\ b.pc = "done") =>
        /\ (b.err.kind \in {"dirFor", "BuildDir"}) <=> (Failed # {})
        /\ Failed # {} =>
              \E k \in Failed : b.err = b.result[k] /\ \A j \in Failed : k <= j
        /\ Failed = {} =>
              b.err = ReturnError(IF TempDirConflict THEN ErrExist ELSE ErrNil)

\* both units failed, unit 2 delivered first and its error is returned
C9_Witness ==
    /\ b.pc = "done"
    /\ b.sent = <<2, 1>>
    /\ Failed = {1, 2}
    /\ b.err = b.result[1]
    /\ b.err.unit = 2

\* C10: the tree is used only once every unit has finished and none has
\* failed; until then, and for good when a unit failed, it is as Build got it.
C10_JoinThenMerge ==
    /\ b.pc # "idle" =>
          /\ b.afUsed => ((\A i \in AllUnits : b.unit[i] = "done") /\ Failed = {})
          /\ ~b.afUsed => CurTree = b.tree0
          /\ (b.pc = "done" /\ Failed # {}) => (~b.afUsed /\ CurTree = b.tree0)

\* two units compiled and their binaries were added to the tree after the join
C10_Witness ==
    /\ b.pc = "done"
    /\ b.afUsed
    /\ Len(b.opts.Packages) = 2
    /\ b.err = NilError
    /\ {<<"bin", "x">>, <<"bin", "y">>} \subseteq DOMAIN Files

\* the units that have run their compilation, into the file b.dest[i]
Compiled == {i \in AllUnits : b.dest[i] # <<>>}

\* C11: in one Build, no two compilation units write to the same file of the
\* temp directory, whatever the package list.
C11_DistinctDests ==
    \A i, j \in Compiled : i # j => b.dest[i] # b.dest[j]

\* Build has returned nil
BuildOK == b.pc = "done" /\ b.afUsed /\ b.err = NilError

\* the package whose binary the tree holds at path p
ContentAt(p) == b.binary[Files[p]]

\* C12: when Build returns nil, the content the tree holds at the path of a
\* unit is the binary of that unit's package, whichever order the units ran
\* in: the path-to-content mapping is a function of the package list.
C12_Deterministic ==
    BuildOK =>
        \A i \in AllUnits :
            LET p == <<binaryDirOf(b.opts), Base(b.opts.Packages[i])>>
            IN  p \in DOMAIN Files /\ ContentAt(p) = b.opts.Packages[i]

\* nothing was compiled and no unit was started
NothingStarted ==
    /\ b.launched = 0
    /\ \A i \in AllUnits : b.unit[i] = "idle"
    /\ b.result = <<>>
    /\ b.built = {}
    /\ b.binary = EmptyMap

C29_BuildReturns ==
    /\ <>(b.pc = "done")
    /\ [](b.pc # "idle" =>
            /\ Len(b.result) <= Len(b.opts.Packages)
            /\ \A i \in AllUnits :
                  Cardinality({k \in 1..Len(b.sent) : b.sent[k] = i})
                      = IF b.unit[i] \in {"return", "done"} THEN 1 ELSE 0
            /\ b.pc \in {"addFile", "done"} =>
                  \A i \in AllUnits : b.unit[i] \in {"idle", "done"})

\* Build has returned with the channel filled to its capacity by two units
C29_Witness ==
    /\ b.pc = "done"
    /\ Len(b.opts.Packages) = 2
    /\ Len(b.result) = 2
    /\ \A i \in AllUnits : b.unit[i] = "done"

\* the entries a successful Build of b.opts has to add: the binaries
Binaries ==
    {<<binaryDirOf(b.opts), Base(b.opts.Packages[i])>> : i \in AllUnits}

\* the directories above the binaries: the root and the binary directory
BinaryDirs == {<<>>, <<binaryDirOf(b.opts)>>}

\* the entries of the tree that Build added or changed
AddedByBuild ==
    {p \in DOMAIN Files : p \notin DOMAIN b.tree0.Files \/ Files[p] # b.tree0.Files[p]}

Ancestors(p) == {SubSeq(p, 1, k) : k \in 1..(Len(p) - 1)}

IsAddFile == last.op \in {"AddFile", "AddFileNoFollow"}

\* the source AddFile ends up adding: resolved when symlinks are followed
LastSrc == IF last.op = "AddFile" THEN EvalSymlinks(HostFS, last.src) ELSE last.src

LastDest == MakeRelative(last.dest)

LastUnchanged == CurTree = last.before

\* the conflict rule for one finished operation on an already claimed path
ConflictRule(identical) ==
    IF identical THEN last.err = ErrNil /\ LastUnchanged
    ELSE last.err = ErrExist /\ LastUnchanged

AddFileConflictRule ==
    (IsAddFile /\ Contains(last.before, LastDest)) =>
        ConflictRule(LastDest \in DOMAIN last.before.Files
                     /\ last.before.Files[LastDest] = LastSrc)

AddRecordConflictRule ==
    (last.op = "AddRecord" /\ Contains(last.before, last.rec.Name)) =>
        ConflictRule(last.rec.Name \in DOMAIN last.before.Records
                     /\ last.before.Records[last.rec.Name] = last.rec)

\* C4 as stated: adding an already claimed destination succeeds without effect
\* when the new claim is identical and otherwise fails with os.ErrExist without
\* effect, for every source, directories included.
C4_Original == AddFileConflictRule /\ AddRecordConflictRule

\* C4 amended: the conflict rule holds for AddRecord and for AddFile /
\* AddFileNoFollow of a source that is not a directory: an identical claim
\* succeeds and changes nothing, any other claim of the path (in either map)
\* fails with os.ErrExist and changes nothing.
C4_ConflictRule ==
    /\ (IsAddFile /\ HostFS[LastSrc].kind # "dir") => AddFileConflictRule
    /\ AddRecordConflictRule

\* an AddFile of a regular file onto a path claimed in the record map was refused
C4_Witness ==
    /\ last.op = "AddFile"
    /\ HostFS[LastSrc].kind = "file"
    /\ LastDest \in DOMAIN last.before.Records
    /\ last.err = ErrExist

C6_RelativeKeys ==
    /\ \A p \in Keys(CurTree) : ~IsAbs(p)
    /\ (IsAddFile /\ IsAbs(last.dest)) =>
          LET r == addFile(HostFS, last.before, last.src, Tail(last.dest),
                           last.op = "AddFile")
          IN  r.err = last.err /\ r.t = CurTree
    /\ (last.op = "AddRecord" /\ IsAbs(last.rec.Name)) =>
          last.err = errAbsoluteName /\ LastUnchanged

\* an AddFile with an absolute destination succeeded and added the path
C6_Witness ==
    /\ last.op = "AddFile"
    /\ last.dest = <<"/", "a", "b">>
    /\ last.err = ErrNil
    /\ <<"a", "b">> \in DOMAIN Files \ DOMAIN last.before.Files

\* C7: after fillInParents every proper ancestor of every claimed path is
\* claimed, each ancestor that was missing is a directory record with mode
\* 0755, and every entry that existed before is unchanged.
C7_ParentsFilled ==
    last.op = "fillInParents" =>
        /\ \A p \in Keys(CurTree) : \A a \in Ancestors(p) : Contains(CurTree, a)
        /\ \A a \in Keys(CurTree) \ Keys(last.before) :
              /\ a \in DOMAIN Records
              /\ Records[a] = Directory(a, DefaultDirMode)
              /\ \E p \in Keys(last.before) : a \in Ancestors(p)
        /\ \A p \in DOMAIN last.before.Files :
              p \in DOMAIN Files /\ Files[p] = last.before.Files[p]
        /\ \A p \in DOMAIN last.before.Records :
              p \in DOMAIN Records /\ Records[p] = last.before.Records[p]

\* fillInParents ran with "a" explicitly added with mode 0777 and "a/b" missing
C7_Witness ==
    /\ last.op = "fillInParents"
    /\ <<"a", "b", "c">> \in Keys(last.before)
    /\ <<"a", "b">> \notin Keys(last.before)
    /\ <<"a">> \in DOMAIN last.before.Records
    /\ last.before.Records[<<"a">>] = Directory(<<"a">>, Mode0777)
    /\ Records[<<"a">>] = Directory(<<"a">>, Mode0777)
    /\ Records[<<"a", "b">>] = Directory(<<"a", "b">>, DefaultDirMode)

\* C27: with a base archive, UseExistingInit set and init defined by the
\* tree, the tree's init entry is at inito and nothing is at init before any
\* base record is read, whether or not the base archive contains init; the
\* sink holds the user's init at inito, and a record at init only if the base
\* archive supplies one, which is then the base archive's
C27_UserInitMoved ==
    /\ (PreRenamed /\ w.pc = "read" /\ w.base = w.stream) =>
          /\ ~Contains(CurTree, InitPath)
          /\ SinkRecord(CurTree, InitoPath) = UserInitAsInito
    /\ (PreRenamed /\ WriteOK) =>
          /\ SinkAt(InitoPath) = {UserInitAsInito}
          /\ IF InitPath \in BaseNames THEN BaseInitAt(InitPath)
             ELSE SinkAt(InitPath) = {}

\* the base archive has no init: the sink holds the user's init at inito and
\* nothing at init
C27_Witness ==
    /\ PreRenamed /\ WriteOK
    /\ w.stream # <<>>
    /\ InitPath \notin BaseNames
    /\ SinkAt(InitoPath) = {StaticFile(InitoPath, "bar", Mode0444)}
    /\ SinkAt(InitPath) = {}

\* ------------------------------------- claims on AddFile of a directory
\* the host paths below the directory AddFile was given
Below(src) ==
    {q \in DOMAIN HostFS : Len(q) > Len(src) /\ SubSeq(q, 1, Len(src)) = src}

\* the archive path of the host path q below the source
DestOf(q) == LastDest \o SubSeq(q, Len(LastSrc) + 1, Len(q))

\* AddFile of a directory onto a destination a different directory claims
DirOntoDir ==
    /\ IsAddFile
    /\ HostFS[LastSrc].kind = "dir"
    /\ LastDest \in DOMAIN last.before.Files
    /\ last.before.Files[LastDest] # LastSrc
    /\ HostFS[last.before.Files[LastDest]].kind = "dir"

\* the path of q is claimed by something other than q
Collides(q) ==
    /\ Contains(last.before, DestOf(q))
    /\ ~(DestOf(q) \in DOMAIN last.before.Files /\ last.before.Files[DestOf(q)] = q)

\* q cannot take its path: a directory gives way only to a record, anything
\* else to every other claim
Refused(q) ==
    IF HostFS[q].kind = "dir" THEN DestOf(q) \in DOMAIN last.before.Records
    ELSE Collides(q)

\* the destination maps to the new directory, everything below the new
\* directory is in the tree, and the entries at other paths are kept
DirAdded ==
    /\ last.err = ErrNil
    /\ Files[LastDest] = LastSrc
    /\ \A q \in Below(LastSrc) : DestOf(q) \in DOMAIN Files /\ Files[DestOf(q)] = q
    /\ Records = last.before.Records
    /\ \A p \in DOMAIN last.before.Files \ ({LastDest} \cup {DestOf(q) : q \in Below(LastSrc)}) :
          p \in DOMAIN Files /\ Files[p] = last.before.Files[p]

WriteUser == IF w.hasBase THEN preRename(w.user, w.useExistingInit) ELSE w.user

\* the path a base record is sent under
OutName(r) ==
    IF ~w.useExistingInit /\ Contains(w.user, InitPath) /\ r.Name = InitPath
    THEN InitoPath ELSE r.Name

\* the base records whose path is unclaimed when they are streamed
KeptBase ==
    {i \in 1..Len(w.stream) :
        /\ OutName(w.stream[i]) \notin Keys(WriteUser)
        /\ \A j \in 1..(i - 1) : OutName(w.stream[j]) # OutName(w.stream[i])}

ClaimedPaths == Keys(WriteUser) \cup {OutName(w.stream[i]) : i \in KeptBase}

MissingParents == UNION {Ancestors(p) : p \in ClaimedPaths} \ ClaimedPaths

ExpectedRecords ==
    {SinkRecord(WriteUser, p) : p \in Keys(WriteUser)}
        \cup {[MakeReproducible(w.stream[i]) EXCEPT !.Name = OutName(w.stream[i])] :
                 i \in KeptBase}
        \cup {Directory(p, DefaultDirMode) : p \in MissingParents}

\* every path is sent once, and the trailer once, after the records
SentOnce ==
    /\ w.sink # <<>>
    /\ w.sink[Len(w.sink)] = TrailerRecord
    /\ \A i, j \in 1..Len(w.sink) : w.sink[i].Name = w.sink[j].Name => i = j

\* C25: when Write has returned nil, the sink holds every entry of the user
\* tree, every base record whose path was unclaimed when it was streamed and
\* a default directory for every missing ancestor, each path once, and the
\* trailer once after them
C25_ExactRecords ==
    WriteOK =>
        /\ SentOnce
        /\ {w.sink[i] : i \in 1..(Len(w.sink) - 1)} = ExpectedRecords

\* Write returned nil having sent the user's etc/f, the base archive's init
\* under inito and a default directory for etc, the second etc/f of the base
\* archive being dropped
C25_Witness ==
    /\ WriteOK
    /\ w.stream = <<BaseRecord(InitPath), Rec(EtcFPath, "file", Mode0555, "bf2", 1)>>
    /\ Keys(w.user) = {InitPath, EtcFPath}
    /\ ~w.useExistingInit
    /\ {w.sink[i].Name : i \in 1..(Len(w.sink) - 1)}
          = {EtcPath, EtcFPath, InitPath, InitoPath}
    /\ Directory(EtcPath, DefaultDirMode) \in SinkAt(EtcPath)

\* the first base record sent under the path of the record at i
FirstAt(i) ==
    CHOOSE j \in 1..i :
        /\ OutName(w.stream[j]) = OutName(w.stream[i])
        /\ \A k \in 1..(j - 1) : OutName(w.stream[k]) # OutName(w.stream[i])

====
